---- MODULE Spec2Model ----
(***************************************************************************)
(* StudyFlow: a model of the progress/mastery bookkeeping, the quiz        *)
(* scorer, the markdown stripper, the registration handler and the file    *)
(* ingestion adapter of core/services.py, core/models.py and core/views.py.*)
(*                                                                         *)
(* Database tables are sequences of rows (records); a row is appended by   *)
(* objects.create and rewritten in place by save().  Dates are day numbers.*)
(* Each part of the program has its own specification over the shared      *)
(* variables:                                                              *)
(*   Spec          update_user_stats_on_chat (streak, RetentionMetric)     *)
(*   SpecQuiz      QuizAttempt.calculate_score                             *)
(*   SpecProgress  FileProgress.mark_completed, CourseProgress.update_progress *)
(*   SpecMarkdown  GeminiService._remove_markdown_formatting               *)
(*   SpecRegister  RegisterView.post, LogoutView.post                      *)
(*   SpecUpload    GeminiService.upload_file_stateless                     *)
(*   SpecChat      GeminiService.chat                                      *)
(*   SpecGen       GeminiService.generate_quiz                             *)
(*   SpecApi       the JSON handlers of views.py                           *)
(*   SpecQuizView  GenerateQuizView.post                                   *)
(*   SpecRace      update_user_stats_on_chat, two calls side by side       *)
(*   SpecUploadLive  upload_file_stateless under fairness                  *)
(*   SpecExtract   generate_quiz on an array wrapped in prose              *)
(*   SpecLogin     RegisterView.post, LoginView.post                       *)
(*   SpecOwner     the handlers over tables in which two users own rows    *)
(*   SpecMore      ChatView, UploadNotesView, DeleteFileView and the       *)
(*                 progress handlers                                       *)
(***************************************************************************)
EXTENDS Integers, Sequences, FiniteSets, TLC

VARIABLES
    today,              \* the calendar day the server clock shows
    userstats,          \* table UserStats
    retention_metrics,  \* table RetentionMetric
    turns,              \* calls of update_user_stats_on_chat handled so far
    quiz_questions,     \* GeneratedQuiz.questions of the quiz under attempt
    attempt,            \* table QuizAttempt: <<>> or the one attempt row
    course_progress,    \* table CourseProgress
    file_progress,      \* table FileProgress
    md_text,            \* the raw model output handed to the markdown stripper
    md_passes,          \* what each successive pass of the stripper returned
    users,              \* table User (django.contrib.auth)
    profiles,           \* table StudentProfile
    session,            \* the client's session: <<>> or <<id of the logged-in user>>
    upload_pc,          \* upload_file_stateless: "idle", "polling" or "done"
    file_state,         \* file_ref.state.name as last reported by the service
    waited,             \* the local variable waited (seconds slept)
    upload_result,      \* what upload_file_stateless gave its caller
    chat_pc,            \* GeminiService.chat: "idle", "fetching", "calling" or "done"
    chat_names,         \* the argument file_resource_names
    chat_states,        \* what genai.get_file gave for each name looked at so far
    content_parts,      \* the local content_parts: the file handles attached
    chat_response,      \* how self.model.generate_content ended
    chat_result,        \* what chat gave its caller
    gen_pc,             \* GeminiService.generate_quiz: "idle", "calling" or "done"
    gen_names,          \* the argument file_resource_names
    gen_parts,          \* the local content_parts: the file handles attached
    gen_response,       \* how self.model.generate_content ended
    gen_result,         \* what generate_quiz gave its caller
    courses,            \* table Course
    uploaded_files,     \* table UploadedFile
    chat_messages,      \* table ChatMessage, in creation order
    generated_quizzes,  \* table GeneratedQuiz
    next_id,            \* the next id of the tables Course, GeneratedQuiz and UploadedFile
    requests,           \* the requests the handlers have answered so far
    workers,            \* the calls of update_user_stats_on_chat in flight, by worker
    remote_files,       \* the resource names the AI service holds a file for
    call                \* the last call handled: its arguments and what it read

statsVars == <<today, userstats, retention_metrics, turns>>

quizVars == <<quiz_questions, attempt>>

progressVars == <<course_progress, file_progress>>

markdownVars == <<md_text, md_passes>>

authVars == <<users, profiles, session>>

uploadVars == <<upload_pc, file_state, waited, upload_result>>

chatVars == <<chat_pc, chat_names, chat_states, content_parts, chat_response, chat_result>>

baseVars == <<statsVars, quizVars, progressVars, markdownVars, authVars, uploadVars>>

baseVarsButStats == <<quizVars, progressVars, markdownVars, authVars, uploadVars>>

\* The variables of the specifications added after SpecUpload.
genVars == <<gen_pc, gen_names, gen_parts, gen_response, gen_result>>

apiVars == <<courses, uploaded_files, chat_messages, generated_quizzes, next_id, requests>>

\* The calls of update_user_stats_on_chat that run side by side, and the
\* files kept at the AI service.
lateVars == <<workers, remote_files>>

moreVars == <<chatVars, genVars, apiVars, lateVars>>

vars == <<statsVars, quizVars, progressVars, markdownVars, authVars, uploadVars, moreVars, call>>

----------------------------------------------------------------------------
(* Bounds of the model *)

MaxDay == 2

MaxTurns == 4

MaxQuestions == 3

MaxFiles == 2

MaxCompleted == 3

MaxTextLen == 5

(* Program constants *)

RETENTION_BASE == 15

RETENTION_DELTA == 5

RETENTION_CAP == 100

----------------------------------------------------------------------------
(* Generic helpers *)

Min(a, b) == IF a <= b THEN a ELSE b

\* The indices of the rows of a table that satisfy P, in table order.
Where(table, P(_)) == {i \in 1..Len(table) : P(table[i])}

First(S) == CHOOSE i \in S : \A j \in S : i <= j

Idle == [op |-> "none"]

\* The parts of the state a specification does not use stay as constructed.
StatsIdle ==
    /\ today = 0
    /\ userstats = <<>>
    /\ retention_metrics = <<>>
    /\ turns = 0

QuizIdle ==
    /\ quiz_questions = <<>>
    /\ attempt = <<>>

ProgressIdle ==
    /\ course_progress = <<>>
    /\ file_progress = <<>>

MarkdownIdle ==
    /\ md_text = <<>>
    /\ md_passes = <<>>

AuthIdle ==
    /\ users = <<>>
    /\ profiles = <<>>
    /\ session = <<>>

UploadIdle ==
    /\ upload_pc = "idle"
    /\ file_state = "none"
    /\ waited = 0
    /\ upload_result = [kind |-> "pending"]

ChatIdle ==
    /\ chat_pc = "idle"
    /\ chat_names = <<>>
    /\ chat_states = <<>>
    /\ content_parts = <<>>
    /\ chat_response = [kind |-> "none"]
    /\ chat_result = [kind |-> "pending"]

GenIdle ==
    /\ gen_pc = "idle"
    /\ gen_names = <<>>
    /\ gen_parts = <<>>
    /\ gen_response = [kind |-> "none"]
    /\ gen_result = [kind |-> "pending"]

ApiIdle ==
    /\ courses = <<>>
    /\ uploaded_files = <<>>
    /\ chat_messages = <<>>
    /\ generated_quizzes = <<>>
    /\ next_id = [course |-> 1, quiz |-> 1, file |-> 1]
    /\ requests = 0

\* A worker that is not inside update_user_stats_on_chat.
NoWorker ==
    [pc |-> "idle", user |-> "", user_stats |-> <<>>, today |-> 0,
     today_metric |-> <<>>, outcome |-> "none"]

Workers == {"w1", "w2"}

LateIdle ==
    /\ workers = [w \in Workers |-> NoWorker]
    /\ remote_files = {}

MoreIdle == ChatIdle /\ GenIdle /\ ApiIdle /\ LateIdle

BaseIdle ==
    /\ StatsIdle
    /\ QuizIdle
    /\ ProgressIdle
    /\ MarkdownIdle
    /\ AuthIdle
    /\ UploadIdle

----------------------------------------------------------------------------
(* update_user_stats_on_chat: services.py 340-384 *)

Users == {"u1", "u2"}

Days == 0..MaxDay

\* The scores a RetentionMetric row created and bumped by the code can hold:
\* 15, 20, ..., 100.
ReachableScores ==
    {s \in RETENTION_BASE..RETENTION_CAP : (s - RETENTION_BASE) % RETENTION_DELTA = 0}

\* UserStats.objects.create(user=u) / get_or_create: the model's defaults,
\* last_activity_date set by auto_now to the day of the save.
NewUserStats(u, day) ==
    [user |-> u, current_streak |-> 0, documents_processed |-> 0,
     last_activity_date |-> day]

\* Mutant of StreakAfter: the same-day branch counts the turn as a new day.
StreakAfter_BumpSameDay(current_streak, last_activity, today_) ==
    IF last_activity = today_ - 1 \/ last_activity = today_ THEN current_streak + 1
    ELSE 1

\* Lines 357-362: the streak branch, on the values the code compares.
StreakAfter(current_streak, last_activity, today_) ==
    IF last_activity = today_ THEN current_streak
    ELSE IF last_activity = today_ - 1 THEN current_streak + 1
    ELSE 1

\* Mutant of ScoreAfter: the increment without the min(100, ...) cap.
ScoreAfter_NoCap(before) ==
    IF before # <<>> THEN before[1] + RETENTION_DELTA ELSE RETENTION_BASE

\* Lines 373-381: the score the day's metric holds after the call; before is
\* the sequence of scores of the rows filter(user, date=today) returns.
ScoreAfter(before) ==
    IF before # <<>> THEN Min(RETENTION_CAP, before[1] + RETENTION_DELTA)
    ELSE RETENTION_BASE

\* The clock is read three times: timezone.now() on line 351 (now1), on line
\* 354 (now2), and date.today() inside save() on line 364 for the auto_now
\* field (now3).  Midnight may pass between two reads.
ClockReads ==
    {r \in [now1 : Days, now2 : Days, now3 : Days] :
        /\ r.now1 = today
        /\ r.now2 \in {r.now1, r.now1 + 1}
        /\ r.now3 \in {r.now2, r.now2 + 1}
        /\ r.now3 <= today + 1}

update_user_stats_on_chat(u, r) ==
    LET statIdx == Where(userstats, LAMBDA row : row.user = u)
        created == statIdx = {}
        \* line 348: get_or_create
        stored == IF created THEN NewUserStats(u, r.now1) ELSE userstats[First(statIdx)]
        \* line 351: the field is overwritten before it is read
        user_stats == [stored EXCEPT !.last_activity_date = r.now1]
        \* lines 354-355
        today_ == r.now2
        last_activity == user_stats.last_activity_date
        \* lines 357-364; save() stores date.today() in the auto_now field
        saved == [user_stats EXCEPT
                    !.current_streak = StreakAfter(user_stats.current_streak,
                                                   last_activity, today_),
                    !.last_activity_date = r.now3]
        \* lines 368-371
        metIdx == Where(retention_metrics,
                        LAMBDA row : row.user = u /\ row.date = today_)
        before == IF metIdx = {} THEN <<>>
                  ELSE <<retention_metrics[First(metIdx)].score>>
    IN  /\ turns < MaxTurns
        /\ turns' = turns + 1
        /\ today' = r.now3
        /\ userstats' = IF created THEN Append(userstats, saved)
                        ELSE [userstats EXCEPT ![First(statIdx)] = saved]
        /\ retention_metrics' =
             IF metIdx # {}
             THEN [retention_metrics EXCEPT ![First(metIdx)].score = ScoreAfter(before)]
             ELSE Append(retention_metrics,
                         [user |-> u, date |-> today_, score |-> ScoreAfter(before)])
        /\ call' = [op |-> "update_user_stats_on_chat", user |-> u,
                    had_stats |-> ~created,
                    stored_date |-> stored.last_activity_date,
                    streak_before |-> stored.current_streak,
                    today |-> today_,
                    score_before |-> before]
        /\ UNCHANGED <<quizVars, progressVars, markdownVars, authVars, uploadVars, moreVars>>

UpdateUserStatsOnChat ==
    \E u \in Users : \E r \in ClockReads : update_user_stats_on_chat(u, r)

\* A day passes with no request.
Tick ==
    /\ today < MaxDay
    /\ today' = today + 1
    /\ call' = Idle
    /\ UNCHANGED <<userstats, retention_metrics, turns>>
    /\ UNCHANGED <<quizVars, progressVars, markdownVars, authVars, uploadVars, moreVars>>

\* u1 registered on day 0 (RegisterView creates the UserStats row); u2 has no
\* UserStats row yet.  u1 may already have chatted on day 0, which leaves a
\* day-0 metric with any of the reachable scores.
Init ==
    /\ today = 0
    /\ userstats = <<NewUserStats("u1", 0)>>
    /\ \/ retention_metrics = <<>>
       \/ \E s \in ReachableScores :
            retention_metrics = <<[user |-> "u1", date |-> 0, score |-> s]>>
    /\ turns = 0
    /\ call = Idle
    /\ MoreIdle
    /\ QuizIdle
    /\ ProgressIdle
    /\ MarkdownIdle
    /\ AuthIdle
    /\ UploadIdle

Next == UpdateUserStatsOnChat \/ Tick

Spec == Init /\ [][Next]_vars

----------------------------------------------------------------------------
(* QuizAttempt.calculate_score: models.py 360-377 *)

\* Option indices of a question: 4 options, "correct" is the index 0-3.
OptionIndex == 0..3

Digits == <<"0", "1", "2", "3", "4", "5", "6", "7", "8", "9">>

\* Python str(idx) for a one-digit index.
Str(idx) == Digits[idx + 1]

\* A question as generate_quiz stores it; only "correct" is read here.
Questions == [correct : OptionIndex]

Quizzes == UNION {[1..n -> Questions] : n \in 0..MaxQuestions}

\* The keys an answer map of the request can hold: the question indices as
\* JSON object keys, and a key that is no str(idx) of any question.
AnswerKeys == {Str(i) : i \in 0..(MaxQuestions - 1)} \cup {"00"}

\* A JSON value of the answer map: <<>> is null, <<v>> the number v.
AnswerValues == {<<>>} \cup {<<v>> : v \in OptionIndex}

AnswerMaps == UNION {[K -> AnswerValues] : K \in SUBSET AnswerKeys}

\* int((part / whole) * 100), models.py 374 and 240.  Python divides and
\* multiplies in binary floating point and int() truncates; for every
\* 0 <= part <= 22 and 1 <= whole < 20 the result equals the exact truncated
\* quotient (the first differences are 23/5 -> 459 and 29/50 -> 57).
IntPercent(part, whole) == (part * 100) \div whole

\* Mutant of CorrectCount: the answer of question idx is looked up under
\* the 1-based key str(idx + 1).
CorrectCount_OneBasedKeys(questions, answers) ==
    Cardinality({idx \in 0..(Len(questions) - 1) :
        LET key == Str(idx + 1)
            selected == IF key \in DOMAIN answers THEN answers[key] ELSE <<>>
        IN  selected # <<>> /\ selected[1] = questions[idx + 1].correct})

\* Lines 365-371: selected = answers.get(str(idx)) is None for a missing key
\* and for a null value.
CorrectCount(questions, answers) ==
    Cardinality({idx \in 0..(Len(questions) - 1) :
        LET key == Str(idx)
            selected == IF key \in DOMAIN answers THEN answers[key] ELSE <<>>
            correct == questions[idx + 1].correct
        IN  selected # <<>> /\ selected[1] = correct})

\* QuizAttempt.objects.create(user, quiz, answers, time_spent_seconds):
\* views.py 803-808, with the model's defaults for score and percentage.
CreateAttempt ==
    /\ attempt = <<>>
    /\ \E answers \in AnswerMaps :
         attempt' = <<[answers |-> answers, score |-> 0, percentage |-> 0]>>
    /\ call' = [op |-> "QuizAttempt.create"]
    /\ UNCHANGED <<quiz_questions, statsVars, progressVars, markdownVars, authVars, uploadVars, moreVars>>

calculate_score ==
    /\ attempt # <<>>
    /\ call.op = "QuizAttempt.create"
    /\ IF quiz_questions = <<>>
       THEN \* lines 362-363: nothing is saved
            /\ attempt' = attempt
            /\ call' = [op |-> "calculate_score", returned |-> 0]
       ELSE LET correct_count == CorrectCount(quiz_questions, attempt[1].answers)
                percentage == IntPercent(correct_count, Len(quiz_questions))
            IN  /\ attempt' = <<[attempt[1] EXCEPT !.score = correct_count,
                                                  !.percentage = percentage]>>
                /\ call' = [op |-> "calculate_score", returned |-> percentage]
    /\ UNCHANGED <<quiz_questions, statsVars, progressVars, markdownVars, authVars, uploadVars, moreVars>>

InitQuiz ==
    /\ quiz_questions \in Quizzes
    /\ attempt = <<>>
    /\ call = Idle
    /\ MoreIdle
    /\ StatsIdle
    /\ ProgressIdle
    /\ MarkdownIdle
    /\ AuthIdle
    /\ UploadIdle

NextQuiz == CreateAttempt \/ calculate_score

SpecQuiz == InitQuiz /\ [][NextQuiz]_vars

----------------------------------------------------------------------------
(* CourseProgress.update_progress, FileProgress.mark_completed:
   models.py 237-252, 285-298 *)

Courses == {"c1", "c2"}

\* The uploaded files with a FileProgress row, and the course of each.
CourseOfFile == [f1 |-> "c1", f2 |-> "c1", f3 |-> "c2"]

Files == DOMAIN CourseOfFile

\* Lines 239-242.
ProgressPercentage(completed_files, total_files) ==
    IF total_files > 0 THEN IntPercent(completed_files, total_files) ELSE 0

\* Mutant of StatusOf: a course counts as completed from 50 percent on.
StatusOf_HalfIsCompleted(progress_percentage) ==
    IF progress_percentage = 0 THEN "not_started"
    ELSE IF progress_percentage >= 50 THEN "completed"
    ELSE "in_progress"

\* Lines 245-250.
StatusOf(progress_percentage) ==
    IF progress_percentage = 0 THEN "not_started"
    ELSE IF progress_percentage = 100 THEN "completed"
    ELSE "in_progress"

\* The row as update_progress saves it.
Recomputed(row) ==
    LET pct == ProgressPercentage(row.completed_files, row.total_files)
    IN  [row EXCEPT !.progress_percentage = pct, !.status = StatusOf(pct)]

\* CourseProgress of (user, course) with the model's defaults, as
\* get_or_create makes it (views.py 888-891); total_files is a plain field,
\* set through the admin site (admin.py 4).
NewCourseProgress(c, total_files) ==
    [user |-> "u1", course |-> c, total_files |-> total_files,
     completed_files |-> 0, progress_percentage |-> 0, status |-> "not_started"]

NewFileProgress(f) ==
    [user |-> "u1", uploaded_file |-> f, is_completed |-> FALSE,
     read_percentage |-> 0]

update_progress(i) ==
    /\ course_progress' = [course_progress EXCEPT ![i] = Recomputed(course_progress[i])]
    /\ call' = [op |-> "update_progress", row |-> i, raised |-> FALSE]
    /\ UNCHANGED <<file_progress, statsVars, quizVars, markdownVars, authVars, uploadVars, moreVars>>

UpdateProgress == \E i \in 1..Len(course_progress) : update_progress(i)

mark_completed(k) ==
    LET fp == file_progress[k]
        course == CourseOfFile[fp.uploaded_file]
        cpIdx == Where(course_progress,
                       LAMBDA row : row.user = fp.user /\ row.course = course)
    IN  \* lines 287-290
        /\ file_progress' = [file_progress EXCEPT
                                ![k].is_completed = TRUE, ![k].read_percentage = 100]
        /\ IF cpIdx = {}
           THEN \* line 293: CourseProgress.DoesNotExist is raised
                /\ course_progress' = course_progress
                /\ call' = [op |-> "mark_completed", row |-> 0, raised |-> TRUE]
           ELSE \* lines 297-298
                LET i == First(cpIdx)
                    bumped == [course_progress[i] EXCEPT
                                 !.completed_files = course_progress[i].completed_files + 1]
                IN  /\ bumped.completed_files <= MaxCompleted
                    /\ course_progress' = [course_progress EXCEPT ![i] = Recomputed(bumped)]
                    /\ call' = [op |-> "mark_completed", row |-> i, raised |-> FALSE]
        /\ UNCHANGED <<statsVars, quizVars, markdownVars, authVars, uploadVars, moreVars>>

MarkCompleted == \E k \in 1..Len(file_progress) : mark_completed(k)

\* Course c1 has a CourseProgress row whose total_files is any count up to
\* MaxFiles; course c2 has one or not.  No file is completed yet.
InitProgress ==
    /\ \E t1 \in 0..MaxFiles, t2 \in 0..MaxFiles :
         \/ course_progress = <<NewCourseProgress("c1", t1)>>
         \/ course_progress = <<NewCourseProgress("c1", t1), NewCourseProgress("c2", t2)>>
    /\ file_progress = <<NewFileProgress("f1"), NewFileProgress("f2"), NewFileProgress("f3")>>
    /\ call = Idle
    /\ MoreIdle
    /\ StatsIdle
    /\ QuizIdle
    /\ MarkdownIdle
    /\ AuthIdle
    /\ UploadIdle

NextProgress == UpdateProgress \/ MarkCompleted

SpecProgress == InitProgress /\ [][NextProgress]_vars

----------------------------------------------------------------------------
(* GeminiService._remove_markdown_formatting: services.py 186-223.
   A text is a sequence of one-character strings.  re.sub scans the text
   from the left: where the pattern matches at the current position the
   replacement is emitted and the scan resumes behind the match, elsewhere
   the character is copied.  "^" and the look of the surrounding characters
   are judged on the text the substitution was given. *)

NL == "\n"

\* The grave accent (the inline-code mark): a TLA+ string cannot hold the
\* character itself, so it goes by its name.
BACKTICK == "grave"

\* Python's \s on the characters the model uses.
Whitespace == {" ", NL, "\t"}

DigitChars == {Digits[i] : i \in 1..Len(Digits)}

\* The number of consecutive characters from pos on that are in set S: a
\* greedy S+ or S*.
RECURSIVE RunLen(_, _, _)
RunLen(text, pos, S) ==
    IF pos <= Len(text) /\ text[pos] \in S
    THEN 1 + RunLen(text, pos + 1, S)
    ELSE 0

StartsWith(text, pos, delim) ==
    /\ pos + Len(delim) - 1 <= Len(text)
    /\ SubSeq(text, pos, pos + Len(delim) - 1) = delim

\* The lazy group (.*?) followed by delim: the first position j >= from where
\* delim starts, with no newline before it unless dotall; 0 if there is none.
RECURSIVE Closing(_, _, _, _)
Closing(text, j, delim, dotall) ==
    IF j > Len(text) THEN 0
    ELSE IF StartsWith(text, j, delim) THEN j
    ELSE IF ~dotall /\ text[j] = NL THEN 0
    ELSE Closing(text, j + 1, delim, dotall)

\* re.sub(delim (.*?) delim, group 1, text) from pos on: lines 194-199, 205,
\* 208.
RECURSIVE SubPair(_, _, _, _)
SubPair(text, pos, delim, dotall) ==
    IF pos > Len(text) THEN <<>>
    ELSE LET j == IF StartsWith(text, pos, delim)
                  THEN Closing(text, pos + Len(delim), delim, dotall)
                  ELSE 0
         IN  IF j # 0
             THEN SubSeq(text, pos + Len(delim), j - 1)
                      \o SubPair(text, j + Len(delim), delim, dotall)
             ELSE <<text[pos]>> \o SubPair(text, pos + 1, delim, dotall)

\* MULTILINE "^": the start of the text and the position behind a newline.
AtLineStart(text, pos) == pos = 1 \/ text[pos - 1] = NL

\* The length of the match of a line-start pattern at pos, 0 for no match.
\*   heading  ^#+\s+          line 202
\*   numbered ^\d+\.\s+       line 211
\*   bullet   ^\s*[-*+]\s+    line 214
PrefixLen(kind, text, pos) ==
    IF kind = "heading" THEN
        LET h == RunLen(text, pos, {"#"})
            w == RunLen(text, pos + h, Whitespace)
        IN  IF h >= 1 /\ w >= 1 THEN h + w ELSE 0
    ELSE IF kind = "numbered" THEN
        LET d == RunLen(text, pos, DigitChars)
            w == RunLen(text, pos + d + 1, Whitespace)
        IN  IF d >= 1 /\ StartsWith(text, pos + d, <<".">>) /\ w >= 1
            THEN d + 1 + w ELSE 0
    ELSE
        LET w0 == RunLen(text, pos, Whitespace)
            w == RunLen(text, pos + w0 + 1, Whitespace)
        IN  IF pos + w0 <= Len(text) /\ text[pos + w0] \in {"-", "*", "+"} /\ w >= 1
            THEN w0 + 1 + w ELSE 0

\* re.sub(<line-start pattern>, '', text, flags=re.MULTILINE) from pos on.
RECURSIVE SubLineStart(_, _, _)
SubLineStart(kind, text, pos) ==
    IF pos > Len(text) THEN <<>>
    ELSE LET n == IF AtLineStart(text, pos) THEN PrefixLen(kind, text, pos) ELSE 0
         IN  IF n > 0
             THEN SubLineStart(kind, text, pos + n)
             ELSE <<text[pos]>> \o SubLineStart(kind, text, pos + 1)

\* \[(.*?)\]\((.*?)\) at pos, the "[" already seen: the first j >= from with
\* "](" at j and a ")" behind it on the same line; <<j, k>> with k the
\* position of that ")", or <<>>.
RECURSIVE LinkMatch(_, _)
LinkMatch(text, j) ==
    IF j > Len(text) THEN <<>>
    ELSE LET k == IF StartsWith(text, j, <<"]", "(">>)
                  THEN Closing(text, j + 2, <<")">>, FALSE)
                  ELSE 0
         IN  IF k # 0 THEN <<j, k>>
             ELSE IF text[j] = NL THEN <<>>
             ELSE LinkMatch(text, j + 1)

\* re.sub(r'\[(.*?)\]\((.*?)\)', r'\1', text) from pos on: line 217.
RECURSIVE SubLink(_, _)
SubLink(text, pos) ==
    IF pos > Len(text) THEN <<>>
    ELSE LET m == IF text[pos] = "[" THEN LinkMatch(text, pos + 1) ELSE <<>>
         IN  IF m # <<>>
             THEN SubSeq(text, pos + 1, m[1] - 1) \o SubLink(text, m[2] + 1)
             ELSE <<text[pos]>> \o SubLink(text, pos + 1)

\* re.sub(r'\n{3,}', '\n\n', text) from pos on: line 220.
RECURSIVE SubNewlines(_, _)
SubNewlines(text, pos) ==
    IF pos > Len(text) THEN <<>>
    ELSE LET n == RunLen(text, pos, {NL})
         IN  IF n >= 3
             THEN <<NL, NL>> \o SubNewlines(text, pos + n)
             ELSE <<text[pos]>> \o SubNewlines(text, pos + 1)

\* str.strip(): line 221.
RECURSIVE Strip(_)
Strip(text) ==
    IF text = <<>> THEN <<>>
    ELSE IF text[1] \in Whitespace THEN Strip(Tail(text))
    ELSE IF text[Len(text)] \in Whitespace THEN Strip(SubSeq(text, 1, Len(text) - 1))
    ELSE text

remove_markdown_formatting(text) ==
    LET t1 == SubPair(text, 1, <<"*", "*">>, FALSE)
        t2 == SubPair(t1, 1, <<"_", "_">>, FALSE)
        t3 == SubPair(t2, 1, <<"*">>, FALSE)
        t4 == SubPair(t3, 1, <<"_">>, FALSE)
        t5 == SubLineStart("heading", t4, 1)
        t6 == SubPair(t5, 1, <<BACKTICK>>, FALSE)
        t7 == SubPair(t6, 1, <<BACKTICK, BACKTICK, BACKTICK>>, TRUE)
        t8 == SubLineStart("numbered", t7, 1)
        t9 == SubLineStart("bullet", t8, 1)
        t10 == SubLink(t9, 1)
        t11 == SubNewlines(t10, 1)
    IN  Strip(t11)

\* The characters of the inputs: bold/italic, heading, inline-code and bullet
\* markers, the parts of a numbered-list marker, blank, newline and a letter.
MarkdownChars == {"*", "#", BACKTICK, "-", "1", ".", " ", NL, "x"}

Texts == UNION {[1..n -> MarkdownChars] : n \in 0..MaxTextLen}

\* One more pass of the stripper over what the last pass returned.
RemoveMarkdown ==
    /\ Len(md_passes) < 2
    /\ md_passes' = Append(md_passes,
          remove_markdown_formatting(IF md_passes = <<>> THEN md_text
                                     ELSE md_passes[Len(md_passes)]))
    /\ call' = [op |-> "_remove_markdown_formatting"]
    /\ UNCHANGED <<md_text, statsVars, quizVars, progressVars, authVars, uploadVars, moreVars>>

InitMarkdown ==
    /\ md_text \in Texts
    /\ md_passes = <<>>
    /\ call = Idle
    /\ MoreIdle
    /\ StatsIdle
    /\ QuizIdle
    /\ ProgressIdle
    /\ AuthIdle
    /\ UploadIdle

NextMarkdown == RemoveMarkdown

SpecMarkdown == InitMarkdown /\ [][NextMarkdown]_vars

----------------------------------------------------------------------------
(* RegisterView.post, LogoutView.post: views.py 35-95, 137-143 *)

\* The response helpers success(data) and error(msg, code): views.py 21-25.
success(data) == [status |-> "success", code |-> 200, data |-> data]

error(msg, code) == [status |-> "error", code |-> code, message |-> msg]

MIN_PASSWORD_LEN == 8

\* The field values a registration payload is drawn from; "" stands for an
\* empty or absent field (data.get(field) is falsy for both).  The passwords
\* have 5 and 8 characters.
FirstNames == {"", "Ann"}

LastNames == {"", "Lee"}

Emails == {"", "a@x.com", "A@x.com", "a@X.com"}

Passwords == {"", "short", "pass1234"}

\* The request bodies: a JSON object with the five fields, a JSON array, or
\* text that is no JSON.
RegisterBodies ==
    [kind : {"object"}, first_name : FirstNames, last_name : LastNames,
     email : Emails, password : Passwords, password_confirm : Passwords]
    \cup {[kind |-> "array"], [kind |-> "malformed"]}

\* BaseUserManager.normalize_email, applied by create_user (line 63): the
\* domain part is lowercased.
NormalizeEmail(email) == IF email = "a@X.com" THEN "a@x.com" ELSE email

\* Lines 42-45: the first required field that is empty or absent, as the
\* message names it; "" if none.
MissingField(data) ==
    IF data.first_name = "" THEN "first name"
    ELSE IF data.last_name = "" THEN "last name"
    ELSE IF data.email = "" THEN "email"
    ELSE IF data.password = "" THEN "password"
    ELSE IF data.password_confirm = "" THEN "password confirm"
    ELSE ""

\* Mutant of PasswordTooShort: the boundary is off by one.
PasswordTooShort_OffByOne(password) == Len(password) <= MIN_PASSWORD_LEN

\* Line 52.
PasswordTooShort(password) == Len(password) < MIN_PASSWORD_LEN

\* Lines 56 and 59: User.objects.filter(email=...).exists() and
\* filter(username=...).exists(), exact matches.
EmailExists(email) == Where(users, LAMBDA row : row.email = email) # {}

UsernameExists(username) == Where(users, LAMBDA row : row.username = username) # {}

\* What a step records of the request for the properties: the tables' sizes
\* before it and whether a User row held the address as email or username.
Before(email) ==
    [users |-> Len(users), profiles |-> Len(profiles), stats |-> Len(userstats),
     registered |-> \E i \in 1..Len(users) :
                        users[i].email = email \/ users[i].username = email]

RegisterView_post(body) ==
    LET rejected(resp) ==
            /\ call' = [op |-> "RegisterView.post", body |-> body, response |-> resp,
                        before |-> Before(IF body.kind = "object" THEN body.email ELSE "")]
            /\ UNCHANGED <<users, profiles, session, userstats>>
    IN
    /\ IF body.kind = "malformed" THEN rejected(error("Invalid JSON", 400))
       ELSE IF body.kind = "array" THEN
            \* data.get raises AttributeError: the catch-all of line 93
            rejected(error("'list' object has no attribute 'get'", 500))
       ELSE IF MissingField(body) # "" THEN
            rejected(error(MissingField(body) \o " is required", 400))
       ELSE IF body.password # body.password_confirm THEN
            rejected(error("Passwords do not match", 400))
       ELSE IF PasswordTooShort(body.password) THEN
            rejected(error("Password must be at least 8 characters", 400))
       ELSE IF EmailExists(body.email) \/ UsernameExists(body.email) THEN
            rejected(error("Email already registered", 400))
       ELSE LET id == Len(users) + 1
                \* lines 63-69: create_user
                user == [id |-> id, username |-> body.email,
                         email |-> NormalizeEmail(body.email),
                         first_name |-> body.first_name, last_name |-> body.last_name,
                         password |-> body.password]
            IN  /\ users' = Append(users, user)
                \* lines 72-77
                /\ profiles' = Append(profiles,
                                      [user |-> id, display_name |-> body.first_name])
                \* line 80
                /\ userstats' = Append(userstats, NewUserStats(id, today))
                \* line 83
                /\ session' = <<id>>
                /\ call' = [op |-> "RegisterView.post", body |-> body,
                            response |-> success([user_id |-> id]),
                            before |-> Before(body.email)]
    /\ UNCHANGED <<today, retention_metrics, turns>>
    /\ UNCHANGED <<quizVars, progressVars, markdownVars, uploadVars, moreVars>>

Register == \E body \in RegisterBodies : RegisterView_post(body)

LogoutView_post ==
    /\ session' = <<>>
    /\ call' = [op |-> "LogoutView.post", response |-> success([user_id |-> 0])]
    /\ UNCHANGED <<users, profiles, statsVars>>
    /\ UNCHANGED <<quizVars, progressVars, markdownVars, uploadVars, moreVars>>

InitRegister ==
    /\ AuthIdle
    /\ call = Idle
    /\ MoreIdle
    /\ StatsIdle
    /\ QuizIdle
    /\ ProgressIdle
    /\ MarkdownIdle
    /\ UploadIdle

NextRegister == Register \/ LogoutView_post

SpecRegister == InitRegister /\ [][NextRegister]_vars

----------------------------------------------------------------------------
(* GeminiService.upload_file_stateless: services.py 19-73.  The service is a
   black box: upload_file and every get_file either raise or report a state. *)

max_wait == 60

POLL_SECONDS == 2

\* File.State of the service.
FileStates == {"STATE_UNSPECIFIED", "PROCESSING", "ACTIVE", "FAILED"}

\* Lines 69-73: the except clause around the whole body.
Caught == [kind |-> "None"]

\* Mutant of FinalResult: the check of line 54 is missing.
FinalResult_OnlyFailedRejected(state_name) ==
    IF state_name = "FAILED" THEN [kind |-> "None"]
    ELSE [kind |-> "handle", state |-> state_name]

\* Lines 50-67: the result for the state the loop ended with.
FinalResult(state_name) ==
    IF state_name = "FAILED" THEN [kind |-> "None"]
    ELSE IF state_name # "ACTIVE" THEN [kind |-> "None"]
    ELSE [kind |-> "handle", state |-> state_name]

\* Lines 28-30: the local file is missing.
UploadMissingFile ==
    /\ upload_pc = "idle"
    /\ upload_pc' = "done"
    /\ upload_result' = [kind |-> "None"]
    /\ call' = [op |-> "upload_file_stateless", event |-> "file not found"]
    /\ UNCHANGED <<file_state, waited>>
    /\ UNCHANGED <<statsVars, quizVars, progressVars, markdownVars, authVars, moreVars>>

\* Line 36: genai.upload_file raises.
UploadRaises ==
    /\ upload_pc = "idle"
    /\ upload_pc' = "done"
    /\ upload_result' = Caught
    /\ call' = [op |-> "upload_file_stateless", event |-> "upload_file raised"]
    /\ UNCHANGED <<file_state, waited>>
    /\ UNCHANGED <<statsVars, quizVars, progressVars, markdownVars, authVars, moreVars>>

\* Lines 36-41: genai.upload_file returns a file in some state.
UploadReturns ==
    /\ upload_pc = "idle"
    /\ \E s \in FileStates : file_state' = s
    /\ waited' = 0
    /\ upload_pc' = "polling"
    /\ call' = [op |-> "upload_file_stateless", event |-> "uploaded"]
    /\ UNCHANGED upload_result
    /\ UNCHANGED <<statsVars, quizVars, progressVars, markdownVars, authVars, moreVars>>

\* Line 42 as it would read without the ceiling.
StillWaiting_NoCeiling == file_state = "PROCESSING"

\* Line 42: the loop condition.
StillWaiting == file_state = "PROCESSING" /\ waited < max_wait

\* Lines 43-46, get_file returns.
PollReturns ==
    /\ upload_pc = "polling"
    /\ StillWaiting
    /\ \E s \in FileStates : file_state' = s
    /\ waited' = waited + POLL_SECONDS
    /\ call' = [op |-> "upload_file_stateless", event |-> "polled"]
    /\ UNCHANGED <<upload_pc, upload_result>>
    /\ UNCHANGED <<statsVars, quizVars, progressVars, markdownVars, authVars, moreVars>>

\* Lines 43-45, get_file raises.
PollRaises ==
    /\ upload_pc = "polling"
    /\ StillWaiting
    /\ upload_pc' = "done"
    /\ upload_result' = Caught
    /\ call' = [op |-> "upload_file_stateless", event |-> "get_file raised"]
    /\ UNCHANGED <<file_state, waited>>
    /\ UNCHANGED <<statsVars, quizVars, progressVars, markdownVars, authVars, moreVars>>

\* Lines 48-67: the loop has ended.
UploadFinish ==
    /\ upload_pc = "polling"
    /\ ~StillWaiting
    /\ upload_pc' = "done"
    /\ upload_result' = FinalResult(file_state)
    /\ call' = [op |-> "upload_file_stateless", event |-> "finished"]
    /\ UNCHANGED <<file_state, waited>>
    /\ UNCHANGED <<statsVars, quizVars, progressVars, markdownVars, authVars, moreVars>>

InitUpload ==
    /\ UploadIdle
    /\ call = Idle
    /\ MoreIdle
    /\ StatsIdle
    /\ QuizIdle
    /\ ProgressIdle
    /\ MarkdownIdle
    /\ AuthIdle

NextUpload ==
    \/ UploadMissingFile
    \/ UploadRaises
    \/ UploadReturns
    \/ PollReturns
    \/ PollRaises
    \/ UploadFinish

SpecUpload == InitUpload /\ [][NextUpload]_vars

\* The function runs in one thread of the request: once entered, its next
\* statement is always executed (sleep, upload_file and get_file return or
\* raise).
SpecUploadLive == SpecUpload /\ WF_vars(NextUpload)

----------------------------------------------------------------------------
(* GeminiService.chat: services.py 97-184.
   A Python string is a sequence of pieces whose concatenation is the
   string: a fixed message is one piece, a model text is one piece per
   character, the empty string is <<>>. *)

MaxHandles == 2

MaxReplyLen == 4

Handles == {"files/a", "files/b"}

\* The argument file_resource_names.  None and [] take the same branch at
\* line 113 and are both <<>> here.
HandleLists == UNION {[1..n -> Handles] : n \in 0..MaxHandles}

\* str(e) of an exception.
ExceptionMessages == {"", "timeout"}

ReplyChars == {"*", " ", "x"}

ReplyTexts == UNION {[1..n -> ReplyChars] : n \in 0..MaxReplyLen}

\* How self.model.generate_content(...) and the reading of its response end:
\* an exception, a falsy response or one without the attribute text, a
\* response whose text is None, a response with a text.
ModelOutcomes ==
    [kind : {"raises"}, message : ExceptionMessages]
        \cup {[kind |-> "no_text"], [kind |-> "text_none"]}
        \cup [kind : {"text"}, text : ReplyTexts]

FALLBACK == <<"I couldn't generate a response. Please try rephrasing your question.">>

INVALID_RESPONSE == <<"Error: Invalid response from AI model">>

Returned(value) == [kind |-> "returned", value |-> value]

Raised(message) == [kind |-> "raised", message |-> message]

\* Lines 123-127: a fetched handle joins content_parts only when ACTIVE.
ContentPartsAfter_NoStateCheck(parts, name, state_name) == Append(parts, name)

ContentPartsAfter(parts, name, state_name) ==
    IF state_name = "ACTIVE" THEN Append(parts, name) ELSE parts

\* Lines 134-184: the try block around the model call and its except clause.
ChatReply_Reraises(response) ==
    IF response.kind = "raises"
    THEN Raised(response.message)
    ELSE IF response.kind = "no_text"
    THEN Returned(INVALID_RESPONSE)
    ELSE IF response.kind = "text_none" \/ Strip(response.text) = <<>>
    THEN Returned(FALLBACK)
    ELSE Returned(remove_markdown_formatting(Strip(response.text)))

ChatReply(response) ==
    IF response.kind = "raises"
    THEN Returned(<<"Error: ", response.message>>)
    ELSE IF response.kind = "no_text"
    THEN Returned(INVALID_RESPONSE)
    ELSE IF response.kind = "text_none" \/ Strip(response.text) = <<>>
    THEN Returned(FALLBACK)
    ELSE Returned(remove_markdown_formatting(Strip(response.text)))

\* chat(message, file_resource_names) is entered: lines 108-113.
ChatCalled ==
    /\ chat_pc = "idle"
    /\ \E names \in HandleLists :
         /\ chat_names' = names
         /\ chat_pc' = IF Len(names) > 0 THEN "fetching" ELSE "calling"
    /\ call' = [op |-> "chat"]
    /\ UNCHANGED <<chat_states, content_parts, chat_response, chat_result>>
    /\ UNCHANGED <<baseVars, genVars, apiVars, lateVars>>

\* Where the loop of line 115 stands once one more name has been looked at.
AfterFetch(seen) == IF Len(seen) = Len(chat_names) THEN "calling" ELSE "fetching"

\* genai.get_file(name) returns: lines 118-127.
ChatFetchReturns ==
    /\ chat_pc = "fetching"
    /\ \E state_name \in FileStates :
         /\ chat_states' = Append(chat_states, state_name)
         /\ content_parts' =
                ContentPartsAfter(content_parts, chat_names[Len(chat_states) + 1], state_name)
    /\ chat_pc' = AfterFetch(chat_states')
    /\ call' = [op |-> "get_file"]
    /\ UNCHANGED <<chat_names, chat_response, chat_result>>
    /\ UNCHANGED <<baseVars, genVars, apiVars, lateVars>>

\* genai.get_file(name) raises: the inner except of lines 128-129, then the
\* next name.
ChatFetchRaises ==
    /\ chat_pc = "fetching"
    /\ chat_states' = Append(chat_states, "raised")
    /\ chat_pc' = AfterFetch(chat_states')
    /\ call' = [op |-> "get_file"]
    /\ UNCHANGED <<chat_names, content_parts, chat_response, chat_result>>
    /\ UNCHANGED <<baseVars, genVars, apiVars, lateVars>>

\* Lines 134-184: the model is called with the attached files (RAG mode) or
\* with the prompt alone, and chat returns.
ChatGenerate ==
    /\ chat_pc = "calling"
    /\ \E response \in ModelOutcomes :
         /\ chat_response' = response
         /\ chat_result' = ChatReply(response)
    /\ chat_pc' = "done"
    /\ call' = [op |-> "generate_content",
                mode |-> IF Len(content_parts) > 0 THEN "rag" ELSE "general",
                files |-> content_parts]
    /\ UNCHANGED <<chat_names, chat_states, content_parts>>
    /\ UNCHANGED <<baseVars, genVars, apiVars, lateVars>>

InitChat ==
    /\ ChatIdle
    /\ GenIdle
    /\ ApiIdle
    /\ LateIdle
    /\ call = Idle
    /\ BaseIdle

NextChat == ChatCalled \/ ChatFetchReturns \/ ChatFetchRaises \/ ChatGenerate

SpecChat == InitChat /\ [][NextChat]_vars

----------------------------------------------------------------------------
(* GeminiService.generate_quiz: services.py 226-335.
   A model output is a sequence of tokens: the brackets and braces, the
   comma, blanks, a character of prose, the code fences, and the members of
   one question object ("o2c1": an options array of 2 entries and correct
   index 1).  The fence removal, the search for the array and json.loads
   work on that sequence as the code works on the characters. *)

MaxTokens == 5

\* The three grave accents, alone and followed by "json": line 296.
FENCE == "fence"

FENCE_JSON == "fence-json"

\* What the members of a question object say: the length of the options
\* array and the correct index, each <<>> when the key is absent.
QuestionBodies ==
    [o2c1 |-> [options |-> <<2>>, correct |-> <<1>>],
     o2c2 |-> [options |-> <<2>>, correct |-> <<2>>],
     o4c0 |-> [options |-> <<4>>, correct |-> <<0>>]]

BodyTokens == DOMAIN QuestionBodies

\* The dict json.loads builds for an object: {} has no keys.
QuestionOf(body) ==
    IF body = "" THEN [options |-> <<>>, correct |-> <<>>] ELSE QuestionBodies[body]

QuizTokens == {"[", "]", "{", "}", " ", "x", FENCE, "o2c1"}

RawResponses == UNION {[1..n -> QuizTokens] : n \in 0..MaxTokens}

\* raw_response.replace("```json", "").replace("```", "").strip(): line 296.
RemoveFences(raw) == Strip(SelectSeq(raw, LAMBDA t : t \notin {FENCE, FENCE_JSON}))

Skip(text, pos) == pos + RunLen(text, pos, Whitespace)

\* \[\s*\{ at position i: the position of the brace, 0 for no match.
OpenAt(text, i) ==
    IF i <= Len(text) /\ text[i] = "["
    THEN LET p == Skip(text, i + 1)
         IN  IF p <= Len(text) /\ text[p] = "{" THEN p ELSE 0
    ELSE 0

\* The positions k of a "]" that can end the match begun with the brace at
\* p: [\s\S]*\}\s*\] wants a "}" behind p with only blanks up to k.
CloseEnds(text, p) ==
    {k \in (p + 2)..Len(text) :
        /\ text[k] = "]"
        /\ \E j \in (p + 1)..(k - 1) :
              /\ text[j] = "}"
              /\ \A m \in (j + 1)..(k - 1) : text[m] \in Whitespace}

\* re.search(r'\[\s*\{[\s\S]*\}\s*\]', raw_response), lines 300-307: the
\* leftmost start that matches, and from it the longest match (the star is
\* greedy); <<>> for no match, else <<group(0)>>.
SearchArray(text) ==
    LET starts == {i \in 1..Len(text) :
                      OpenAt(text, i) # 0 /\ CloseEnds(text, OpenAt(text, i)) # {}}
    IN  IF starts = {} THEN <<>>
        ELSE LET i == CHOOSE s \in starts : \A o \in starts : s <= o
                 ends == CloseEnds(text, OpenAt(text, i))
                 k == CHOOSE e \in ends : \A o \in ends : o <= e
             IN  <<SubSeq(text, i, k)>>

JsonFail == [ok |-> FALSE]

JsonObject(body, next) ==
    [ok |-> TRUE, next |-> next, value |-> [kind |-> "object", body |-> body, items |-> <<>>]]

JsonArray(items, next) ==
    [ok |-> TRUE, next |-> next, value |-> [kind |-> "array", body |-> "", items |-> items]]

\* json.loads, line 311, on the tokens: value := object | array,
\* object := "{" [members] "}", array := "[" [value ("," value)*] "]", blanks
\* allowed between tokens.  ParseValue reads one value at pos; ParseElements
\* reads the values of an array up to its "]".
RECURSIVE ParseValue(_, _), ParseElements(_, _)
ParseValue(text, pos) ==
    IF pos > Len(text) THEN JsonFail
    ELSE IF text[pos] = "{" THEN
        LET p1 == Skip(text, pos + 1)
        IN  IF p1 > Len(text) THEN JsonFail
            ELSE IF text[p1] = "}" THEN JsonObject("", p1 + 1)
            ELSE IF text[p1] \in BodyTokens THEN
                LET p2 == Skip(text, p1 + 1)
                IN  IF p2 <= Len(text) /\ text[p2] = "}"
                    THEN JsonObject(text[p1], p2 + 1)
                    ELSE JsonFail
            ELSE JsonFail
    ELSE IF text[pos] = "[" THEN
        LET p1 == Skip(text, pos + 1)
        IN  IF p1 > Len(text) THEN JsonFail
            ELSE IF text[p1] = "]" THEN JsonArray(<<>>, p1 + 1)
            ELSE ParseElements(text, p1)
    ELSE JsonFail

ParseElements(text, pos) ==
    LET v == ParseValue(text, pos)
    IN  IF ~v.ok THEN JsonFail
        ELSE LET p2 == Skip(text, v.next)
             IN  IF p2 > Len(text) THEN JsonFail
                 ELSE IF text[p2] = "]" THEN JsonArray(<<v.value>>, p2 + 1)
                 ELSE IF text[p2] = "," THEN
                     LET rest == ParseElements(text, Skip(text, p2 + 1))
                     IN  IF rest.ok
                         THEN JsonArray(<<v.value>> \o rest.value.items, rest.next)
                         ELSE JsonFail
                 ELSE JsonFail

\* json.loads(clean_text): the value, or JSONDecodeError (also for anything
\* behind the value).
JsonLoads(text) ==
    LET v == ParseValue(text, Skip(text, 1))
    IN  IF v.ok /\ Skip(text, v.next) = Len(text) + 1 THEN v ELSE JsonFail

----------------------------------------------------------------------------
\* The messages str(e) of a failed model call, by character.
QuizErrorMessages ==
    {<<"4", "2", "9">>,
     <<"q", "u", "o", "t", "a">>,
     <<"Q", "u", "o", "t", "a">>,
     <<"R", "E", "S", "O", "U", "R", "C", "E", "_",
       "E", "X", "H", "A", "U", "S", "T", "E", "D">>,
     <<"r", "e", "s", "o", "u", "r", "c", "e">>,
     <<"t", "i", "m", "e", "o", "u", "t">>,
     <<>>}

UpperCase == <<"A", "B", "C", "D", "E", "F", "G", "H", "I", "J", "K", "L", "M",
               "N", "O", "P", "Q", "R", "S", "T", "U", "V", "W", "X", "Y", "Z">>

LowerCase == <<"a", "b", "c", "d", "e", "f", "g", "h", "i", "j", "k", "l", "m",
               "n", "o", "p", "q", "r", "s", "t", "u", "v", "w", "x", "y", "z">>

\* str.lower(): line 326.
Lower(text) ==
    [i \in 1..Len(text) |->
        IF \E n \in 1..26 : UpperCase[n] = text[i]
        THEN LowerCase[CHOOSE n \in 1..26 : UpperCase[n] = text[i]]
        ELSE text[i]]

\* keyword in msg.
Contains(text, keyword) ==
    \E i \in 1..(Len(text) - Len(keyword) + 1) :
        SubSeq(text, i, i + Len(keyword) - 1) = keyword

QUOTA_KEYWORDS ==
    {<<"q", "u", "o", "t", "a">>,
     <<"4", "2", "9">>,
     <<"r", "e", "s", "o", "u", "r", "c", "e", "_",
       "e", "x", "h", "a", "u", "s", "t", "e", "d">>}

\* Lines 326-332.
IsQuotaError_CaseSensitive(message) ==
    \E keyword \in QUOTA_KEYWORDS : Contains(message, keyword)

IsQuotaError(message) ==
    \E keyword \in QUOTA_KEYWORDS : Contains(Lower(message), keyword)

\* The three results of generate_quiz.
QuizList(questions) == [kind |-> "list", questions |-> questions]

QuizNone == [kind |-> "None"]

QUOTA_EXCEEDED == [kind |-> "dict", _error |-> "quota_exceeded"]

\* How self.model.generate_content(content_parts) and response.text end
\* (a text of None reads as ''): line 290-292.
QuizOutcomes(responses) ==
    [kind : {"raises"}, message : QuizErrorMessages]
        \cup [kind : {"text"}, text : responses]

\* Lines 288-335: the try block around the model call and its two except
\* clauses.
QuizReply_ParseErrorEscapes(response) ==
    IF response.kind = "raises"
    THEN IF IsQuotaError(response.message) THEN QUOTA_EXCEEDED ELSE QuizNone
    ELSE LET json_match == SearchArray(RemoveFences(response.text))
         IN  IF json_match = <<>> THEN QuizNone
             ELSE LET quiz_data == JsonLoads(json_match[1])
                  IN  IF ~quiz_data.ok THEN [kind |-> "raised"]
                      ELSE IF quiz_data.value.kind # "array" \/ Len(quiz_data.value.items) = 0
                      THEN QuizNone
                      ELSE QuizList(quiz_data.value.items)

QuizReply(response) ==
    IF response.kind = "raises"
    THEN IF IsQuotaError(response.message) THEN QUOTA_EXCEEDED ELSE QuizNone
    ELSE LET json_match == SearchArray(RemoveFences(response.text))
         IN  IF json_match = <<>> THEN QuizNone
             ELSE LET quiz_data == JsonLoads(json_match[1])
                  IN  IF ~quiz_data.ok THEN QuizNone
                      ELSE IF quiz_data.value.kind # "array" \/ Len(quiz_data.value.items) = 0
                      THEN QuizNone
                      ELSE QuizList(quiz_data.value.items)

\* Lines 236-244: the files attached to the prompt.  The try is around the
\* whole loop: the first fetch that raises ends it, what was attached stays.
RECURSIVE QuizParts(_, _, _, _)
QuizParts(names, states, i, parts) ==
    IF i > Len(names) \/ states[i] = "raised" THEN parts
    ELSE QuizParts(names, states, i + 1,
                   IF states[i] = "ACTIVE" THEN Append(parts, names[i]) ELSE parts)

\* GenerateQuizView passes None or a list of one handle: views.py 694, 710.
QUIZ_VIEW_HANDLES == 1

QuizHandleLists == UNION {[1..n -> Handles] : n \in 0..QUIZ_VIEW_HANDLES}

\* generate_quiz is entered and looks its files up: lines 232-286.
QuizFetchFiles ==
    /\ gen_pc = "idle"
    /\ \E names \in QuizHandleLists :
         \E states \in [1..Len(names) -> FileStates \cup {"raised"}] :
            /\ gen_names' = names
            /\ gen_parts' = QuizParts(names, states, 1, <<>>)
    /\ gen_pc' = "calling"
    /\ call' = [op |-> "generate_quiz"]
    /\ UNCHANGED <<gen_response, gen_result>>
    /\ UNCHANGED <<baseVars, chatVars, apiVars, lateVars>>

\* The model is called and generate_quiz returns: lines 288-335.
QuizGenerate ==
    /\ gen_pc = "calling"
    /\ \E response \in QuizOutcomes(RawResponses) :
         /\ gen_response' = response
         /\ gen_result' = QuizReply(response)
    /\ gen_pc' = "done"
    /\ call' = [op |-> "generate_content",
                mode |-> IF Len(gen_parts) > 0 THEN "documents" ELSE "course",
                files |-> gen_parts]
    /\ UNCHANGED <<gen_names, gen_parts>>
    /\ UNCHANGED <<baseVars, chatVars, apiVars, lateVars>>

InitGen ==
    /\ GenIdle
    /\ ChatIdle
    /\ ApiIdle
    /\ LateIdle
    /\ call = Idle
    /\ BaseIdle

NextGen == QuizFetchFiles \/ QuizGenerate

SpecGen == InitGen /\ [][NextGen]_vars

----------------------------------------------------------------------------
(* The JSON handlers of views.py over the tables Course, UploadedFile,
   ChatMessage, GeneratedQuiz and StudentProfile.  A request is one step: the
   handler runs from its first line to the response it returns.  request.user
   is <<>> for a request without a session and <<id>> for a logged-in user.
   A key of a JSON body is <<>> when absent and <<v>> when it holds v. *)

MaxRequests == 2

MaxQuizRequests == 1

ApiUsers == {1, 2}

Callers == {<<>>} \cup {<<u>> : u \in ApiUsers}

\* Course.STATUS_CHOICES: models.py 98-102.
STATUS_CHOICES == {"Just Started", "On Track", "Review Needed"}

\* Lines 162-163, 204-205, 264-265, 277-278, 405-406, 429-430, 461-462.
NOT_AUTHENTICATED == error("User not authenticated", 401)

\* LoginRequiredMixin.dispatch for a request without a session:
\* handle_no_permission redirects to the login page (raise_exception is not
\* set by any view).  views.py 293, 371, 509, 573, 656, 772, 845, 869, 927.
LOGIN_REDIRECT == [status |-> "redirect", code |-> 302, location |-> "LOGIN_URL?next="]

apiTables == <<courses, uploaded_files, chat_messages, generated_quizzes, next_id>>

\* What every handler of this part leaves alone.
apiFrame == <<statsVars, quizVars, markdownVars, uploadVars, users, session, chatVars, genVars,
              lateVars>>

Reverse(seq) == [i \in 1..Len(seq) |-> seq[Len(seq) + 1 - i]]

\* Mutant of CourseGet: the lookup by id alone.
CourseGet_AnyOwner(course_id, user) ==
    Where(courses, LAMBDA row : row.id = course_id)

\* Course.objects.get(id=course_id, user=user): the row's index, {} for
\* DoesNotExist.
CourseGet(course_id, user) ==
    Where(courses, LAMBDA row : row.id = course_id /\ row.user = user)

\* UploadedFile.objects.get(id=file_id, user=user).
FileGet(file_id, user) ==
    Where(uploaded_files, LAMBDA row : row.id = file_id /\ row.user = user)

\* The response goes to the client; the step is counted.
Answer(op, caller, args, response) ==
    /\ requests' = requests + 1
    /\ call' = [op |-> op, caller |-> caller, args |-> args, response |-> response]

NoWrites == UNCHANGED <<apiTables, profiles, progressVars>>

----------------------------------------------------------------------------
\* CourseListView.get: views.py 261-272.
CourseListView_get(caller) ==
    /\ Answer("CourseListView.get", caller, <<>>,
              IF caller = <<>> THEN NOT_AUTHENTICATED
              ELSE success(Reverse(SelectSeq(courses, LAMBDA row : row.user = caller[1]))))
    /\ NoWrites
    /\ UNCHANGED apiFrame

CourseCreateBodies ==
    [kind : {"object"}, name : {<<>>, <<"">>, <<"Physics">>},
     branch : {<<>>, <<"CSE">>}, semester : {<<>>, <<2>>}]
        \cup {[kind |-> "array"], [kind |-> "malformed"]}

\* CourseListView.post: views.py 274-290.  Every exception, the one of
\* json.loads included, reaches the only except clause (line 289).
CourseListView_post(caller, body) ==
    LET op == "CourseListView.post"
        rejected(response) == Answer(op, caller, body, response) /\ NoWrites
    IN
    /\ IF caller = <<>> THEN rejected(NOT_AUTHENTICATED)
       ELSE IF body.kind = "malformed" THEN
            rejected(error("Expecting value: line 1 column 1 (char 0)", 500))
       ELSE IF body.kind = "array" THEN
            rejected(error("list indices must be integers or slices, not str", 500))
       ELSE IF body.name = <<>> THEN rejected(error("'name'", 500))
       ELSE IF body.branch = <<>> THEN rejected(error("'branch'", 500))
       ELSE LET new_course ==
                    [id |-> next_id.course, user |-> caller[1], name |-> body.name[1],
                     branch |-> body.branch[1],
                     semester |-> IF body.semester = <<>> THEN 1 ELSE body.semester[1],
                     status |-> "Just Started", is_completed |-> FALSE]
            IN  /\ courses' = Append(courses, new_course)
                /\ next_id' = [next_id EXCEPT !.course = @ + 1]
                /\ Answer(op, caller, body,
                          success([id |-> new_course.id, name |-> new_course.name]))
                /\ UNCHANGED <<uploaded_files, chat_messages, generated_quizzes,
                               profiles, progressVars>>
    /\ UNCHANGED apiFrame

\* The ids a URL or a body can name: two that exist in the first state and
\* one that does not.
PathIds == {1, 2, 3}

PatchStatuses == STATUS_CHOICES \cup {"Done"}

CoursePatchBodies ==
    [kind : {"object"}, name : {<<>>, <<"">>, <<"Calculus">>},
     is_completed : {<<>>, <<TRUE>>},
     status : {<<>>} \cup {<<s>> : s \in PatchStatuses}]
        \cup {[kind |-> "array"], [kind |-> "malformed"]}

\* Lines 175-176.
PatchedStatus(course, data) ==
    IF data.status # <<>> THEN data.status[1] ELSE course.status

\* CourseDetailView.patch: views.py 159-183.  The course is looked up before
\* the body is parsed.
CourseDetailView_patch(caller, course_id, body) ==
    LET op == "CourseDetailView.patch"
        args == [course_id |-> course_id, body |-> body]
        rejected(response) == Answer(op, caller, args, response) /\ NoWrites
    IN
    /\ IF caller = <<>> THEN rejected(NOT_AUTHENTICATED)
       ELSE IF CourseGet(course_id, caller[1]) = {} THEN
            rejected(error("Course not found", 404))
       ELSE IF body.kind = "malformed" THEN
            rejected(error("Expecting value: line 1 column 1 (char 0)", 500))
       ELSE IF body.kind = "array" THEN
            rejected(error("'list' object has no attribute 'get'", 500))
       ELSE LET i == First(CourseGet(course_id, caller[1]))
                course == courses[i]
                saved == [course EXCEPT
                            !.name = IF body.name # <<>> /\ body.name[1] # ""
                                     THEN body.name[1] ELSE @,
                            !.is_completed = IF body.is_completed # <<>>
                                             THEN body.is_completed[1] ELSE @,
                            !.status = PatchedStatus(course, body)]
            IN  /\ courses' = [courses EXCEPT ![i] = saved]
                /\ Answer(op, caller, args,
                          success([id |-> saved.id, name |-> saved.name,
                                   status |-> saved.status,
                                   is_completed |-> saved.is_completed]))
                /\ UNCHANGED <<uploaded_files, chat_messages, generated_quizzes, next_id,
                               profiles, progressVars>>
    /\ UNCHANGED apiFrame

\* CourseDetailView.delete: views.py 185-197.  course.delete() takes along
\* the rows whose foreign key to the course (or to one of its files) is
\* CASCADE and clears GeneratedQuiz.uploaded_file (SET_NULL): models.py 146,
\* 175, 208, 261, 307-313.
CourseDetailView_delete(caller, course_id) ==
    LET op == "CourseDetailView.delete"
        args == [course_id |-> course_id]
        rejected(response) == Answer(op, caller, args, response) /\ NoWrites
    IN
    /\ IF caller = <<>> THEN rejected(NOT_AUTHENTICATED)
       ELSE IF CourseGet(course_id, caller[1]) = {} THEN
            rejected(error("Course not found", 404))
       ELSE LET gone == {uploaded_files[k].id :
                            k \in Where(uploaded_files, LAMBDA row : row.course = course_id)}
                kept == SelectSeq(generated_quizzes, LAMBDA row : row.course # course_id)
            IN  /\ courses' = SelectSeq(courses, LAMBDA row : row.id # course_id)
                /\ uploaded_files' =
                        SelectSeq(uploaded_files, LAMBDA row : row.course # course_id)
                /\ chat_messages' =
                        SelectSeq(chat_messages, LAMBDA row : row.course # course_id)
                /\ generated_quizzes' =
                        [k \in 1..Len(kept) |->
                            IF kept[k].uploaded_file # <<>> /\ kept[k].uploaded_file[1] \in gone
                            THEN [kept[k] EXCEPT !.uploaded_file = <<>>]
                            ELSE kept[k]]
                /\ course_progress' =
                        SelectSeq(course_progress, LAMBDA row : row.course # course_id)
                /\ file_progress' =
                        SelectSeq(file_progress, LAMBDA row : row.uploaded_file \notin gone)
                /\ Answer(op, caller, args, success([deleted |-> TRUE]))
                /\ UNCHANGED <<next_id, profiles>>
    /\ UNCHANGED apiFrame

----------------------------------------------------------------------------
\* Names by character, so that str.strip() acts on them.
DisplayNames == {<<" ">>, <<" ", "B">>}

Universities == {<<"M", " ">>}

\* A body of kind "array" is a JSON array that holds neither key as an
\* element: both membership tests of lines 438 and 441 are false on it.
ProfileBodies ==
    [kind : {"object"}, displayname : {<<>>} \cup {<<n>> : n \in DisplayNames},
     university : {<<>>} \cup {<<n>> : n \in Universities}]
        \cup {[kind |-> "array"], [kind |-> "malformed"]}

\* StudentProfile.objects.get_or_create(user=user) creating: display_name is
\* the empty string, university NULL.
NewStudentProfile(user) == [user |-> user, display_name |-> <<>>, university |-> <<>>]

\* UpdateProfileView.post: views.py 426-452.
UpdateProfileView_post(caller, body) ==
    LET op == "UpdateProfileView.post"
        rejected(response) == Answer(op, caller, body, response) /\ NoWrites
    IN
    /\ IF caller = <<>> THEN rejected(NOT_AUTHENTICATED)
       ELSE IF body.kind = "malformed" THEN
            rejected(error("Expecting value: line 1 column 1 (char 0)", 500))
       ELSE LET found == Where(profiles, LAMBDA row : row.user = caller[1])
                profile == IF found = {} THEN NewStudentProfile(caller[1])
                           ELSE profiles[First(found)]
                displayname == IF body.kind = "object" THEN body.displayname ELSE <<>>
                university == IF body.kind = "object" THEN body.university ELSE <<>>
                saved == [profile EXCEPT
                            !.display_name =
                                IF displayname # <<>> /\ Strip(displayname[1]) # <<>>
                                THEN Strip(displayname[1]) ELSE @,
                            !.university =
                                IF university # <<>> THEN <<Strip(university[1])>> ELSE @]
            IN  /\ profiles' = IF found = {} THEN Append(profiles, saved)
                               ELSE [profiles EXCEPT ![First(found)] = saved]
                /\ Answer(op, caller, body,
                          success([displayname |-> saved.display_name,
                                   university |-> saved.university]))
                /\ UNCHANGED <<apiTables, progressVars>>
    /\ UNCHANGED apiFrame

----------------------------------------------------------------------------
\* The model outputs tried on GenerateQuizView: one question with its
\* correct index inside and one with it outside its options, two questions
\* between code fences, prose only, nothing.
ViewRawResponses ==
    {<<"[", "{", "o2c1", "}", "]">>,
     <<"[", "{", "o2c2", "}", "]">>,
     <<FENCE_JSON, "[", "{", "o4c0", "}", ",", "{", "}", "]", FENCE>>,
     <<"x">>,
     <<>>}

ViewQuizOutcomes == QuizOutcomes(ViewRawResponses)

QuizRequestBodies ==
    [kind : {"object"}, course_id : {<<>>} \cup {<<i>> : i \in PathIds},
     file_id : {<<>>} \cup {<<i>> : i \in PathIds}]
        \cup {[kind |-> "array"], [kind |-> "malformed"]}

\* Line 705: the slice [:5].
RECENT_MESSAGES == 5

\* "\n".join(lines), as pieces.
RECURSIVE JoinLines(_)
JoinLines(lines) ==
    IF Len(lines) <= 1 THEN lines
    ELSE <<lines[1], NL>> \o JoinLines(Tail(lines))

\* Lines 702-706: the messages of the user in the course, the newest five,
\* oldest first.  The table is in creation order.
ContextText(user, course_id) ==
    LET mine == SelectSeq(chat_messages,
                          LAMBDA row : row.user = user /\ row.course = course_id)
        from == IF Len(mine) > RECENT_MESSAGES THEN Len(mine) - RECENT_MESSAGES + 1 ELSE 1
    IN  JoinLines([k \in 1..(Len(mine) - from + 1) |-> mine[from + k - 1].message])

QUOTA_MESSAGE == "Gemini quota exceeded (20 req/day). Wait or upgrade."

\* Lines 716-726: the response to a generation that gave no questions.
QuizFailure(questions) ==
    IF questions = QUOTA_EXCEEDED THEN error(QUOTA_MESSAGE, 429)
    ELSE error("Failed to generate quiz", 500)

\* GenerateQuizView.post: views.py 662-770.  Where generate_quiz is called,
\* state_name is what genai.get_file gives for the one handle passed and
\* response how the model call ends.
GenerateQuizView_post(caller, body) ==
    LET op == "GenerateQuizView.post"
        rejected(resp) == Answer(op, caller, [body |-> body], resp) /\ NoWrites
    IN
    /\ IF caller = <<>> THEN rejected(LOGIN_REDIRECT)
       ELSE IF body.kind = "malformed" THEN rejected(error("Invalid JSON", 400))
       ELSE IF body.kind = "array" THEN
            \* data.get raises AttributeError: the catch-all of line 757
            rejected(error("Server error", 500))
       ELSE IF body.course_id = <<>> THEN rejected(error("Course ID required", 400))
       ELSE IF CourseGet(body.course_id[1], caller[1]) = {} THEN
            rejected(error("Course not found", 404))
       ELSE LET user == caller[1]
                course == courses[First(CourseGet(body.course_id[1], user))]
                \* lines 688-699
                found == IF body.file_id = <<>> THEN {} ELSE FileGet(body.file_id[1], user)
                uploaded_file == IF found = {} THEN <<>>
                                 ELSE <<uploaded_files[First(found)].id>>
                file_resources ==
                    IF found = {} THEN <<>>
                    ELSE <<uploaded_files[First(found)].gemini_resource_name>>
                \* <<>>: the name was never bound (file_id given, no such file)
                generated_from_text ==
                    IF body.file_id = <<>> THEN <<FALSE>>
                    ELSE IF found # {} THEN <<TRUE>>
                    ELSE <<>>
                context_text == ContextText(user, course.id)
            IN  \* lines 708-714: generate_quiz
                \E state_name \in FileStates \cup {"raised"} :
                \E response \in ViewQuizOutcomes :
                LET parts == QuizParts(file_resources,
                                       [k \in 1..Len(file_resources) |-> state_name],
                                       1, <<>>)
                    questions == QuizReply(response)
                    args == [body |-> body, response |-> response,
                             file_resources |-> file_resources, files |-> parts,
                             course_name |-> course.name, semester |-> course.semester,
                             context_text |-> context_text]
                    failed(resp) == Answer(op, caller, args, resp) /\ NoWrites
                IN
                IF questions.kind # "list" THEN failed(QuizFailure(questions))
                ELSE IF generated_from_text = <<>> THEN
                     \* line 736 raises UnboundLocalError: the catch-all of
                     \* line 757, whose message names no quota
                     failed(error("Server error", 500))
                ELSE LET quiz == [id |-> next_id.quiz, user |-> user, course |-> course.id,
                                  uploaded_file |-> uploaded_file,
                                  title |-> "Generated Quiz",
                                  num_questions |-> Len(questions.questions),
                                  questions |-> questions.questions,
                                  generated_from_text |-> generated_from_text[1]]
                     IN  /\ generated_quizzes' = Append(generated_quizzes, quiz)
                         /\ next_id' = [next_id EXCEPT !.quiz = @ + 1]
                         /\ Answer(op, caller, args,
                                   success([quiz_id |-> quiz.id, title |-> quiz.title,
                                            num_questions |-> quiz.num_questions,
                                            questions |-> quiz.questions]))
                         /\ UNCHANGED <<courses, uploaded_files, chat_messages,
                                        profiles, progressVars>>
    /\ UNCHANGED apiFrame

----------------------------------------------------------------------------
\* ChatHistoryView.get: views.py 374-398.
ChatHistoryView_get(caller, course_id) ==
    /\ Answer("ChatHistoryView.get", caller, [course_id |-> course_id],
              IF caller = <<>> THEN LOGIN_REDIRECT
              ELSE IF CourseGet(course_id, caller[1]) = {}
              THEN error("Course not found", 404)
              ELSE success([course_id |-> course_id,
                            course_name |-> courses[First(CourseGet(course_id, caller[1]))].name,
                            messages |-> SelectSeq(chat_messages,
                                LAMBDA row : row.user = caller[1] /\ row.course = course_id)]))
    /\ NoWrites
    /\ UNCHANGED apiFrame

\* FileDetailView.get: views.py 846-866.
FileDetailView_get(caller, file_id) ==
    /\ Answer("FileDetailView.get", caller, [file_id |-> file_id],
              IF caller = <<>> THEN LOGIN_REDIRECT
              ELSE IF FileGet(file_id, caller[1]) = {}
              THEN error("File not found", 404)
              ELSE LET uploaded == uploaded_files[First(FileGet(file_id, caller[1]))]
                   IN  success([file_id |-> uploaded.id, course_id |-> uploaded.course,
                                filename |-> uploaded.filename]))
    /\ NoWrites
    /\ UNCHANGED apiFrame

\* CourseFilesView.get: views.py 928-947.  UploadedFile is ordered by
\* -uploaded_at.
CourseFilesView_get(caller, course_id) ==
    /\ Answer("CourseFilesView.get", caller, [course_id |-> course_id],
              IF caller = <<>> THEN LOGIN_REDIRECT
              ELSE IF CourseGet(course_id, caller[1]) = {}
              THEN error("Course not found", 404)
              ELSE success(Reverse(SelectSeq(uploaded_files,
                        LAMBDA row : /\ row.user = caller[1]
                                     /\ row.course = course_id
                                     /\ ~row.is_deleted))))
    /\ NoWrites
    /\ UNCHANGED apiFrame

----------------------------------------------------------------------------
\* The model follows up to MaxRequests requests.
CanAnswer == requests < MaxRequests

ListCourses == CanAnswer /\ \E caller \in Callers : CourseListView_get(caller)

CreateCourse ==
    CanAnswer /\ \E caller \in Callers : \E body \in CourseCreateBodies : CourseListView_post(caller, body)

PatchCourse ==
    CanAnswer /\ \E caller \in Callers : \E course_id \in PathIds : \E body \in CoursePatchBodies :
        CourseDetailView_patch(caller, course_id, body)

DeleteCourse ==
    CanAnswer /\ \E caller \in Callers : \E course_id \in PathIds :
        CourseDetailView_delete(caller, course_id)

UpdateProfile ==
    CanAnswer /\ \E caller \in Callers : \E body \in ProfileBodies : UpdateProfileView_post(caller, body)

GenerateQuiz ==
    CanAnswer /\ \E caller \in Callers : \E body \in QuizRequestBodies :
        GenerateQuizView_post(caller, body)

ChatHistory ==
    CanAnswer /\ \E caller \in Callers : \E course_id \in PathIds : ChatHistoryView_get(caller, course_id)

FileDetail ==
    CanAnswer /\ \E caller \in Callers : \E file_id \in PathIds : FileDetailView_get(caller, file_id)

CourseFiles ==
    CanAnswer /\ \E caller \in Callers : \E course_id \in PathIds : CourseFilesView_get(caller, course_id)

\* The tables before the requests: each user owns one course with one
\* uploaded file; user 1 registered (RegisterView made the profile) and may
\* have chatted in the course.
NewCourse(id, user, name) ==
    [id |-> id, user |-> user, name |-> name, branch |-> "CSE", semester |-> 1,
     status |-> "Just Started", is_completed |-> FALSE]

NewUploadedFile(id, user, course_id, filename, resource_name) ==
    [id |-> id, user |-> user, course |-> course_id, filename |-> filename,
     gemini_resource_name |-> resource_name, gemini_state |-> "ACTIVE",
     is_deleted |-> FALSE]

NewChatMessage(user, course_id, role, message) ==
    [user |-> user, course |-> course_id, role |-> role, message |-> message]

InitApi ==
    /\ courses = <<NewCourse(1, 1, "Algebra"), NewCourse(2, 2, "Biology")>>
    /\ uploaded_files = <<NewUploadedFile(1, 1, 1, "a.pdf", "files/a"),
                          NewUploadedFile(2, 2, 2, "b.pdf", "files/b")>>
    /\ chat_messages \in {<<>>,
                          <<NewChatMessage(1, 1, "user", "m1"),
                            NewChatMessage(1, 1, "assistant", "r1")>>}
    /\ generated_quizzes = <<>>
    /\ next_id = [course |-> 3, quiz |-> 1, file |-> 3]
    /\ requests = 0
    /\ profiles = <<[user |-> 1, display_name |-> <<"A">>, university |-> <<<<>>>>]>>
    /\ users = <<>>
    /\ session = <<>>
    /\ call = Idle
    /\ StatsIdle
    /\ QuizIdle
    /\ ProgressIdle
    /\ MarkdownIdle
    /\ UploadIdle
    /\ ChatIdle
    /\ GenIdle
    /\ LateIdle

NextApi ==
    \/ ListCourses
    \/ CreateCourse
    \/ PatchCourse
    \/ DeleteCourse
    \/ UpdateProfile
    \/ GenerateQuiz
    \/ ChatHistory
    \/ FileDetail
    \/ CourseFiles

SpecApi == InitApi /\ [][NextApi]_vars

\* GenerateQuizView alone, request after request.
NextQuizView == requests < MaxQuizRequests /\ GenerateQuiz

SpecQuizView == InitApi /\ [][NextQuizView]_vars

----------------------------------------------------------------------------
(* update_user_stats_on_chat, services.py 340-384, as the statements of two
   requests interleave.  Each worker runs the function from its first line;
   a step is one database statement together with the Python around it.
   The table RetentionMetric carries unique_together (user, date):
   models.py 130-131. *)

\* The calls followed, over both workers.
MaxRaceCalls == 3

\* RetentionMetric.objects.create(...): the INSERT is refused with an
\* IntegrityError when a row of the same user and date exists.
MetricCreate_NoUniqueTogether(table, row) ==
    [ok |-> TRUE, table |-> Append(table, row)]

MetricCreate(table, row) ==
    IF \E i \in 1..Len(table) : table[i].user = row.user /\ table[i].date = row.date
    THEN [ok |-> FALSE, table |-> table]
    ELSE [ok |-> TRUE, table |-> Append(table, row)]

\* Line 348: get_or_create, which Django makes safe against a concurrent
\* create of the same row.
StatsEnter(w, u) ==
    LET statIdx == Where(userstats, LAMBDA row : row.user = u)
        stored == IF statIdx = {} THEN NewUserStats(u, today)
                  ELSE userstats[First(statIdx)]
    IN  /\ workers[w].pc \in {"idle", "done"}
        /\ turns < MaxRaceCalls
        /\ turns' = turns + 1
        /\ userstats' = IF statIdx = {} THEN Append(userstats, stored) ELSE userstats
        /\ workers' = [workers EXCEPT ![w] =
                          [NoWorker EXCEPT !.pc = "fetched", !.user = u,
                                           !.user_stats = <<stored>>]]
        /\ UNCHANGED <<today, retention_metrics, call>>
        /\ UNCHANGED <<baseVarsButStats, chatVars, genVars, apiVars, remote_files>>

\* Lines 351-364: the streak on the worker's copy of the row, then save(),
\* which writes every field of the copy over the stored row.
StatsSave(w) ==
    LET u == workers[w].user
        user_stats == [workers[w].user_stats[1] EXCEPT !.last_activity_date = today]
        saved == [user_stats EXCEPT
                    !.current_streak = StreakAfter(user_stats.current_streak,
                                                   user_stats.last_activity_date, today)]
        i == First(Where(userstats, LAMBDA row : row.user = u))
    IN  /\ workers[w].pc = "fetched"
        /\ userstats' = [userstats EXCEPT ![i] = saved]
        /\ workers' = [workers EXCEPT ![w].pc = "saved", ![w].today = today,
                                      ![w].user_stats = <<saved>>]
        /\ UNCHANGED <<today, retention_metrics, turns, call>>
        /\ UNCHANGED <<baseVarsButStats, chatVars, genVars, apiVars, remote_files>>

\* Lines 367-370: filter(user, date=today).first(), the row as it is now.
StatsFilter(w) ==
    LET metIdx == Where(retention_metrics,
                        LAMBDA row : row.user = workers[w].user
                                     /\ row.date = workers[w].today)
    IN  /\ workers[w].pc = "saved"
        /\ workers' = [workers EXCEPT
                          ![w].pc = "read",
                          ![w].today_metric =
                              IF metIdx = {} THEN <<>>
                              ELSE <<[row |-> First(metIdx),
                                      score |-> retention_metrics[First(metIdx)].score]>>]
        /\ UNCHANGED <<statsVars, call>>
        /\ UNCHANGED <<baseVarsButStats, chatVars, genVars, apiVars, remote_files>>

\* Lines 372-384: the score of the copy is raised and saved, or the day's
\* row is created; an IntegrityError of the create is caught on line 383.
StatsWrite(w) ==
    LET today_metric == workers[w].today_metric
        made == MetricCreate(retention_metrics,
                             [user |-> workers[w].user, date |-> workers[w].today,
                              score |-> ScoreAfter(<<>>)])
    IN  /\ workers[w].pc = "read"
        /\ IF today_metric # <<>>
           THEN /\ retention_metrics' =
                     [retention_metrics EXCEPT
                         ![today_metric[1].row].score = ScoreAfter(<<today_metric[1].score>>)]
                /\ workers' = [workers EXCEPT ![w].pc = "done", ![w].outcome = "returned"]
           ELSE /\ retention_metrics' = made.table
                /\ workers' = [workers EXCEPT
                                  ![w].pc = "done",
                                  ![w].outcome = IF made.ok THEN "returned" ELSE "caught"]
        /\ UNCHANGED <<today, userstats, turns, call>>
        /\ UNCHANGED <<baseVarsButStats, chatVars, genVars, apiVars, remote_files>>

NextRace ==
    \/ \E w \in Workers : \E u \in Users : StatsEnter(w, u)
    \/ \E w \in Workers : StatsSave(w)
    \/ \E w \in Workers : StatsFilter(w)
    \/ \E w \in Workers : StatsWrite(w)
    \/ Tick

SpecRace == Init /\ [][NextRace]_vars

----------------------------------------------------------------------------
(* generate_quiz on a model output that wraps one JSON array of questions in
   prose: services.py 292-319. *)

MaxProseLen == 2

\* Prose by token: a word, a blank, and the brackets and braces a sentence
\* may hold.
ProseTexts == UNION {[1..n -> {"x", " ", "[", "]", "{", "}"}] : n \in 0..MaxProseLen}

\* Valid non-empty arrays of question objects.
QuestionArrays ==
    {<<"[", "{", "o2c1", "}", "]">>,
     <<"[", "{", "o2c1", "}", ",", " ", "{", "o4c0", "}", "]">>}

\* response.text: prose, the array (between code fences or not), prose.
WrappedResponses ==
    {[kind |-> "text",
      text |-> before \o (IF fenced THEN <<FENCE_JSON>> \o array \o <<FENCE>> ELSE array)
                      \o after,
      before |-> before, array |-> array, after |-> after] :
        before \in ProseTexts, array \in QuestionArrays, after \in ProseTexts,
        fenced \in BOOLEAN}

\* The model answers with a wrapped array and generate_quiz returns: lines
\* 288-335.
QuizGenerateWrapped ==
    /\ gen_pc = "calling"
    /\ \E response \in WrappedResponses :
         /\ gen_response' = response
         /\ gen_result' = QuizReply(response)
    /\ gen_pc' = "done"
    /\ call' = [op |-> "generate_content",
                mode |-> IF Len(gen_parts) > 0 THEN "documents" ELSE "course",
                files |-> gen_parts]
    /\ UNCHANGED <<gen_names, gen_parts>>
    /\ UNCHANGED <<baseVars, chatVars, apiVars, lateVars>>

NextExtract == QuizFetchFiles \/ QuizGenerateWrapped

SpecExtract == InitGen /\ [][NextExtract]_vars

----------------------------------------------------------------------------
(* LoginView.post: views.py 97-135, after the registrations of RegisterView. *)

LoginBodies ==
    [kind : {"object"}, email : Emails, password : Passwords]
    \cup {[kind |-> "array"], [kind |-> "malformed"]}

\* What the lookups __iexact compare: the address without regard to the case
\* of its letters.
CaseFold(email) == IF email \in {"A@x.com", "a@X.com"} THEN "a@x.com" ELSE email

\* authenticate(request, username, password) with ModelBackend: the row
\* whose username is exactly the one given, if its password checks.
Authenticate(username, password) ==
    Where(users, LAMBDA row : row.username = username /\ row.password = password)

LoginView_post(body) ==
    LET answered(resp) == call' = [op |-> "LoginView.post", body |-> body, response |-> resp]
        rejected(resp) == answered(resp) /\ UNCHANGED session
    IN
    /\ IF body.kind = "malformed" THEN rejected(error("Invalid JSON", 400))
       ELSE IF body.kind = "array" THEN
            rejected(error("'list' object has no attribute 'get'", 500))
       ELSE IF body.email = "" THEN rejected(error("Email is required", 400))
       ELSE IF body.password = "" THEN rejected(error("Password is required", 400))
       ELSE LET identifier == body.email
                \* lines 112-114: User.objects.get(Q(email__iexact) | Q(username__iexact))
                found == Where(users,
                               LAMBDA row : \/ CaseFold(row.email) = CaseFold(identifier)
                                            \/ CaseFold(row.username) = CaseFold(identifier))
            IN  IF Cardinality(found) > 1 THEN
                     \* MultipleObjectsReturned is no DoesNotExist: line 131
                     rejected(error("get() returned more than one User", 500))
                ELSE LET username_for_auth ==
                             IF found = {} THEN identifier ELSE users[First(found)].username
                         user == Authenticate(username_for_auth, body.password)
                     IN  IF user = {} THEN rejected(error("Invalid email or password", 401))
                         ELSE /\ session' = <<users[First(user)].id>>
                              /\ answered(success([user_id |-> users[First(user)].id]))
    /\ UNCHANGED <<users, profiles, statsVars>>
    /\ UNCHANGED <<quizVars, progressVars, markdownVars, uploadVars, moreVars>>

Login == \E body \in LoginBodies : LoginView_post(body)

NextLogin == Register \/ Login \/ LogoutView_post

SpecLogin == InitRegister /\ [][NextLogin]_vars

----------------------------------------------------------------------------
(* ChatView, UploadNotesView, DeleteFileView, UpdateProgressView and
   GetProgressView of views.py, over the tables of the handlers above, the
   tables UserStats, RetentionMetric, CourseProgress and FileProgress, and
   the files the AI service keeps. *)

\* What none of these handlers writes.
moreFrame ==
    <<today, turns, quizVars, markdownVars, uploadVars, authVars, chatVars, genVars,
      workers, courses>>

UpdateProgressBodies ==
    [kind : {"object"}, fileid : {<<>>} \cup {<<i>> : i \in PathIds},
     courseid : {<<>>} \cup {<<i>> : i \in PathIds},
     pagesread : {<<3>>}, totalpages : {<<4>>}, iscompleted : {<<>>, <<TRUE>>}]
        \cup {[kind |-> "array"], [kind |-> "malformed"]}

\* UpdateProgressView.post: views.py 574-653.  The keyword uploadedfile of
\* line 603 names no field of FileProgress (models.py 261: uploaded_file):
\* get_or_create raises FieldError before any row is read or written, and
\* the except clause of line 650 answers.
UpdateProgressView_post(caller, body) ==
    /\ Answer("UpdateProgressView.post", caller, body,
              IF caller = <<>> THEN LOGIN_REDIRECT
              ELSE IF body.kind = "malformed" THEN
                   error("Expecting value: line 1 column 1 (char 0)", 500)
              ELSE IF body.kind = "array" THEN
                   error("'list' object has no attribute 'get'", 500)
              ELSE IF body.fileid = <<>> \/ body.courseid = <<>> THEN
                   error("File ID and Course ID required", 400)
              ELSE IF \/ FileGet(body.fileid[1], caller[1]) = {}
                      \/ CourseGet(body.courseid[1], caller[1]) = {} THEN
                   error("File or course not found", 404)
              ELSE error("Cannot resolve keyword 'uploadedfile' into field", 500))
    /\ NoWrites
    /\ UNCHANGED <<moreFrame, userstats, retention_metrics, remote_files>>

\* GetProgressView.get: views.py 875-925.
GetProgressView_get(caller, course_id) ==
    LET op == "GetProgressView.get"
        args == [course_id |-> course_id]
    IN
    /\ IF caller = <<>> \/ CourseGet(course_id, caller[1]) = {}
       THEN /\ Answer(op, caller, args,
                      IF caller = <<>> THEN LOGIN_REDIRECT
                      ELSE error("Course not found", 404))
            /\ UNCHANGED course_progress
       ELSE LET user == caller[1]
                found == Where(course_progress,
                               LAMBDA row : row.user = user /\ row.course = course_id)
                \* lines 888-891: get_or_create
                course_progress_ ==
                    IF found = {} THEN [NewCourseProgress(course_id, 0) EXCEPT !.user = user]
                    ELSE course_progress[First(found)]
                files == {uploaded_files[k].id :
                            k \in Where(uploaded_files, LAMBDA row : row.course = course_id)}
            IN  /\ course_progress' = IF found = {} THEN Append(course_progress, course_progress_)
                                      ELSE course_progress
                /\ Answer(op, caller, args,
                          success([course_progress |-> course_progress_,
                                   file_progress |->
                                       SelectSeq(file_progress,
                                           LAMBDA row : /\ row.user = user
                                                        /\ row.uploaded_file \in files)]))
    /\ UNCHANGED <<apiTables, profiles, file_progress>>
    /\ UNCHANGED <<moreFrame, userstats, retention_metrics, remote_files>>

----------------------------------------------------------------------------
ChatBodies ==
    [kind : {"object"}, message : {<<>>, <<<<" ">>>>, <<<<"q">>>>},
     course_id : {<<>>} \cup {<<i>> : i \in PathIds}]
        \cup {[kind |-> "array"], [kind |-> "malformed"]}

\* How the model call inside service.chat ends, on the requests followed
\* here: a failure, no text, a plain text, a text of markdown marks only.
ChatViewOutcomes ==
    {[kind |-> "raises", message |-> "timeout"],
     [kind |-> "text_none"],
     [kind |-> "text", text |-> <<"x">>],
     [kind |-> "text", text |-> <<"*", "*">>]}

\* update_user_stats_on_chat(user, course), services.py 340-384, within one
\* request and one day: the tables UserStats and RetentionMetric after it.
UserStatsAfterChat(user) ==
    LET statIdx == Where(userstats, LAMBDA row : row.user = user)
        stored == IF statIdx = {} THEN NewUserStats(user, today)
                  ELSE userstats[First(statIdx)]
        saved == [stored EXCEPT
                    !.current_streak = StreakAfter(stored.current_streak, today, today),
                    !.last_activity_date = today]
    IN  IF statIdx = {} THEN Append(userstats, saved)
        ELSE [userstats EXCEPT ![First(statIdx)] = saved]

RetentionAfterChat(user) ==
    LET metIdx == Where(retention_metrics,
                        LAMBDA row : row.user = user /\ row.date = today)
    IN  IF metIdx # {}
        THEN [retention_metrics EXCEPT
                 ![First(metIdx)].score =
                     ScoreAfter(<<retention_metrics[First(metIdx)].score>>)]
        ELSE Append(retention_metrics,
                    [user |-> user, date |-> today, score |-> ScoreAfter(<<>>)])

\* ChatView.post: views.py 294-368.  Where service.chat is called, response
\* is how the model call inside it ends.
ChatView_post(caller, body) ==
    LET op == "ChatView.post"
        rejected(resp) ==
            /\ Answer(op, caller, [body |-> body], resp)
            /\ UNCHANGED <<chat_messages, userstats, retention_metrics>>
    IN
    /\ IF caller = <<>> THEN rejected(LOGIN_REDIRECT)
       ELSE IF body.kind = "malformed" THEN rejected(error("Invalid JSON", 400))
       ELSE IF body.kind = "array" THEN
            rejected(error("'list' object has no attribute 'get'", 500))
       ELSE IF body.message = <<>> \/ Strip(body.message[1]) = <<>> THEN
            rejected(error("Message is required", 400))
       ELSE IF body.course_id # <<>> /\ CourseGet(body.course_id[1], caller[1]) = {} THEN
            rejected(error("Course not found", 404))
       ELSE LET user == caller[1]
                course == body.course_id
                \* lines 313-319
                asked == IF course = <<>> THEN chat_messages
                         ELSE Append(chat_messages,
                                     NewChatMessage(user, course[1], "user", body.message[1]))
                \* lines 321-330
                file_resources ==
                    IF course = <<>> THEN <<>>
                    ELSE LET mine == SelectSeq(uploaded_files,
                                        LAMBDA row : /\ row.user = user
                                                     /\ row.course = course[1]
                                                     /\ ~row.is_deleted
                                                     /\ row.gemini_state = "ACTIVE")
                         IN  [k \in 1..Len(mine) |-> mine[k].gemini_resource_name]
            IN  \* line 335: service.chat
                \E response \in ChatViewOutcomes :
                LET response_text == ChatReply(response).value
                    args == [body |-> body, file_resources |-> file_resources,
                             response |-> response]
                IN  IF Strip(response_text) = <<>>
                    THEN \* lines 338-339
                         /\ chat_messages' = asked
                         /\ Answer(op, caller, args,
                                   error("AI model did not return a response", 500))
                         /\ UNCHANGED <<userstats, retention_metrics>>
                    ELSE \* lines 341-362
                         /\ chat_messages' =
                               IF course = <<>> THEN asked
                               ELSE Append(asked,
                                           NewChatMessage(user, course[1], "assistant",
                                                          Strip(response_text)))
                         /\ userstats' = UserStatsAfterChat(user)
                         /\ retention_metrics' = RetentionAfterChat(user)
                         /\ Answer(op, caller, args,
                                   success([response |-> Strip(response_text)]))
    /\ UNCHANGED <<uploaded_files, generated_quizzes, next_id, profiles, progressVars>>
    /\ UNCHANGED <<moreFrame, remote_files>>

----------------------------------------------------------------------------
\* How service.upload_file_stateless(full_path) ends (services.py 19-73):
\* genai.upload_file raises and nothing exists at the service; the file is
\* created there but ends FAILED or is still PROCESSING after the waiting
\* time; or it is created and ACTIVE.  Only the last returns a handle.
UploadEnds == {"raises", "not_active", "active"}

\* The name the service gives to the file of this request: one it never
\* gave before.
FreshResourceName == "files/" \o Str(requests)

\* UploadNotesView.post: views.py 458-507.
UploadNotesView_post(caller, course_id, has_file) ==
    LET op == "UploadNotesView.post"
        args == [course_id |-> course_id, has_file |-> has_file]
    IN
    /\ IF caller = <<>> \/ ~has_file
       THEN /\ Answer(op, caller, args,
                      IF caller = <<>> THEN NOT_AUTHENTICATED
                      ELSE error("No file provided", 400))
            /\ UNCHANGED <<uploaded_files, next_id, userstats, remote_files>>
       ELSE \E ends \in UploadEnds :
            LET user == caller[1]
                \* lines 474-475
                result == IF ends = "active"
                          THEN <<[resource_name |-> FreshResourceName]>> ELSE <<>>
                \* lines 480-482
                statIdx == Where(userstats, LAMBDA row : row.user = user)
                stats == IF statIdx = {} THEN NewUserStats(user, today)
                         ELSE userstats[First(statIdx)]
                counted == [stats EXCEPT !.documents_processed = @ + 1,
                                         !.last_activity_date = today]
            IN
            /\ remote_files' = IF ends = "raises" THEN remote_files
                               ELSE remote_files \cup {FreshResourceName}
            /\ IF result = <<>>
               THEN \* lines 477-478
                    /\ Answer(op, caller, args, error("Gemini API upload failed", 500))
                    /\ UNCHANGED <<uploaded_files, next_id, userstats>>
               ELSE /\ userstats' = IF statIdx = {} THEN Append(userstats, counted)
                                    ELSE [userstats EXCEPT ![First(statIdx)] = counted]
                    /\ IF CourseGet(course_id, user) = {}
                       THEN \* lines 484-487
                            /\ Answer(op, caller, args, error("Course not found", 404))
                            /\ UNCHANGED <<uploaded_files, next_id>>
                       ELSE \* lines 489-505
                            LET uploaded == NewUploadedFile(next_id.file, user, course_id,
                                                            "n.pdf", result[1].resource_name)
                            IN  /\ uploaded_files' = Append(uploaded_files, uploaded)
                                /\ next_id' = [next_id EXCEPT !.file = @ + 1]
                                /\ Answer(op, caller, args,
                                          success([id |-> uploaded.id,
                                                   filename |-> uploaded.filename,
                                                   gemini_resource_name |->
                                                       uploaded.gemini_resource_name]))
    /\ UNCHANGED <<chat_messages, generated_quizzes, profiles, progressVars,
                   retention_metrics>>
    /\ UNCHANGED moreFrame

DeleteFileBodies ==
    [kind : {"object"}, file_id : {<<>>} \cup {<<i>> : i \in PathIds}]
        \cup {[kind |-> "array"], [kind |-> "malformed"]}

\* GeminiService.delete_file(name), services.py 75-95: True when the service
\* deleted the file, False when genai.delete_file raised (the file is not
\* there, or the call failed and the file stays).
RemoteDeleteEnds(name) == IF name \in remote_files THEN BOOLEAN ELSE {FALSE}

\* DeleteFileView.post: views.py 515-570.
DeleteFileView_post(caller, body) ==
    LET op == "DeleteFileView.post"
        rejected(resp) ==
            /\ Answer(op, caller, [body |-> body], resp)
            /\ UNCHANGED <<uploaded_files, generated_quizzes, file_progress, remote_files>>
    IN
    /\ IF caller = <<>> THEN rejected(LOGIN_REDIRECT)
       ELSE IF body.kind = "malformed" THEN rejected(error("Invalid JSON", 400))
       ELSE IF body.kind = "array" THEN
            rejected(error("'list' object has no attribute 'get'", 500))
       ELSE IF body.file_id = <<>> THEN rejected(error("File ID required", 400))
       ELSE IF FileGet(body.file_id[1], caller[1]) = {} THEN
            rejected(error("File not found", 404))
       ELSE LET file_id == body.file_id[1]
                uploaded_file == uploaded_files[First(FileGet(file_id, caller[1]))]
                name == uploaded_file.gemini_resource_name
            IN  \* lines 537-538
                \E deleted \in RemoteDeleteEnds(name) :
                /\ remote_files' = IF deleted THEN remote_files \ {name} ELSE remote_files
                \* line 541: uploaded_file.delete(), with FileProgress cascading
                \* (models.py 261) and GeneratedQuiz.uploaded_file set to NULL
                /\ uploaded_files' = SelectSeq(uploaded_files, LAMBDA row : row.id # file_id)
                /\ file_progress' =
                       SelectSeq(file_progress, LAMBDA row : row.uploaded_file # file_id)
                /\ generated_quizzes' =
                       [k \in 1..Len(generated_quizzes) |->
                           IF generated_quizzes[k].uploaded_file = <<file_id>>
                           THEN [generated_quizzes[k] EXCEPT !.uploaded_file = <<>>]
                           ELSE generated_quizzes[k]]
                \* lines 543-558
                /\ Answer(op, caller, [body |-> body, deleted |-> deleted],
                          IF ~deleted THEN error("Failed to delete from Gemini", 500)
                          ELSE success([file_id |-> file_id,
                                        filename |-> uploaded_file.filename]))
    /\ UNCHANGED <<chat_messages, next_id, profiles, course_progress, userstats,
                   retention_metrics>>
    /\ UNCHANGED moreFrame

----------------------------------------------------------------------------
\* The tables before the requests: those of InitApi, a UserStats row for
\* each of the two registered users that counts their one document, and the
\* two uploaded files at the service.
InitMore ==
    /\ courses = <<NewCourse(1, 1, "Algebra"), NewCourse(2, 2, "Biology")>>
    /\ uploaded_files = <<NewUploadedFile(1, 1, 1, "a.pdf", "files/a"),
                          NewUploadedFile(2, 2, 2, "b.pdf", "files/b")>>
    /\ chat_messages \in {<<>>,
                          <<NewChatMessage(1, 1, "user", <<"m">>),
                            NewChatMessage(1, 1, "assistant", <<"r">>)>>}
    /\ generated_quizzes = <<>>
    /\ next_id = [course |-> 3, quiz |-> 1, file |-> 3]
    /\ requests = 0
    /\ remote_files = {"files/a", "files/b"}
    /\ workers = [w \in Workers |-> NoWorker]
    /\ today = 0
    /\ userstats = <<[NewUserStats(1, 0) EXCEPT !.documents_processed = 1],
                     [NewUserStats(2, 0) EXCEPT !.documents_processed = 1]>>
    /\ retention_metrics = <<>>
    /\ turns = 0
    /\ profiles = <<[user |-> 1, display_name |-> <<"A">>, university |-> <<<<>>>>]>>
    /\ users = <<>>
    /\ session = <<>>
    /\ call = Idle
    /\ QuizIdle
    /\ ProgressIdle
    /\ MarkdownIdle
    /\ UploadIdle
    /\ ChatIdle
    /\ GenIdle

NextMore ==
    \/ CanAnswer /\ \E caller \in Callers : \E course_id \in PathIds :
            \E has_file \in BOOLEAN : UploadNotesView_post(caller, course_id, has_file)
    \/ CanAnswer /\ \E caller \in Callers : \E body \in DeleteFileBodies :
            DeleteFileView_post(caller, body)
    \/ CanAnswer /\ \E caller \in Callers : \E body \in ChatBodies :
            ChatView_post(caller, body)
    \/ CanAnswer /\ \E caller \in Callers : \E body \in UpdateProgressBodies :
            UpdateProgressView_post(caller, body)
    \/ CanAnswer /\ \E caller \in Callers : \E course_id \in PathIds :
            GetProgressView_get(caller, course_id)

SpecMore == InitMore /\ [][NextMore]_vars

----------------------------------------------------------------------------
(* The handlers that read or write the rows of a user, from tables in which
   each of the two users owns a record of every kind: a course, an uploaded
   file, chat messages, a quiz, and for user 2 a quiz attempt and the two
   progress records.  The variable attempt is the whole table QuizAttempt
   here. *)

\* The requests followed.
MaxOwnerRequests == 1

SubmitQuizBodies ==
    [kind : {"object"}, quiz_id : {<<>>} \cup {<<i>> : i \in PathIds},
     answers : {[k \in {} |-> <<>>], [k \in {"0"} |-> <<1>>]}]
        \cup {[kind |-> "array"], [kind |-> "malformed"]}

\* GeneratedQuiz.objects.get(id=quiz_id, user=user).
QuizGet(quiz_id, user) ==
    Where(generated_quizzes, LAMBDA row : row.id = quiz_id /\ row.user = user)

\* QuizAttempt.calculate_score over the questions as json.loads built them:
\* models.py 360-377.  question.get raises AttributeError on an element
\* that is no object, and nothing is saved.
AttemptScored(row, questions) ==
    IF Len(questions) = 0 THEN [ok |-> TRUE, row |-> row]
    ELSE IF \E k \in 1..Len(questions) : questions[k].kind # "object"
    THEN [ok |-> FALSE, row |-> row]
    ELSE LET correct_count ==
                Cardinality({idx \in 0..(Len(questions) - 1) :
                    LET key == Str(idx)
                        selected == IF key \in DOMAIN row.answers
                                    THEN row.answers[key] ELSE <<>>
                        correct == QuestionOf(questions[idx + 1].body).correct
                    IN  selected # <<>> /\ selected = correct})
         IN  [ok |-> TRUE,
              row |-> [row EXCEPT !.score = correct_count,
                                  !.percentage = IntPercent(correct_count, Len(questions))]]

\* SubmitQuizView.post: views.py 778-842.
SubmitQuizView_post(caller, body) ==
    LET op == "SubmitQuizView.post"
        rejected(resp) ==
            /\ Answer(op, caller, [body |-> body], resp)
            /\ UNCHANGED <<attempt, userstats, retention_metrics>>
    IN
    /\ IF caller = <<>> THEN rejected(LOGIN_REDIRECT)
       ELSE IF body.kind = "malformed" THEN rejected(error("Invalid JSON", 400))
       ELSE IF body.kind = "array" THEN
            rejected(error("'list' object has no attribute 'get'", 500))
       ELSE IF body.quiz_id = <<>> THEN rejected(error("Quiz ID required", 400))
       ELSE IF QuizGet(body.quiz_id[1], caller[1]) = {} THEN
            rejected(error("Quiz not found", 404))
       ELSE LET user == caller[1]
                quiz == generated_quizzes[First(QuizGet(body.quiz_id[1], user))]
                \* lines 803-811
                scored == AttemptScored([user |-> user, quiz |-> quiz.id,
                                         answers |-> body.answers,
                                         score |-> 0, percentage |-> 0],
                                        quiz.questions)
            IN  /\ attempt' = Append(attempt, scored.row)
                /\ IF ~scored.ok
                   THEN \* the catch-all of line 834
                        /\ Answer(op, caller, [body |-> body],
                                  error("'list' object has no attribute 'get'", 500))
                        /\ UNCHANGED <<userstats, retention_metrics>>
                   ELSE \* line 815
                        /\ userstats' = UserStatsAfterChat(user)
                        /\ retention_metrics' = RetentionAfterChat(user)
                        /\ Answer(op, caller, [body |-> body],
                                  success([score |-> scored.row.score,
                                           percentage |-> scored.row.percentage,
                                           correct_answers |->
                                               [k \in 1..Len(quiz.questions) |->
                                                   QuestionOf(quiz.questions[k].body).correct]]))
    /\ UNCHANGED <<apiTables, profiles, progressVars, remote_files>>
    /\ UNCHANGED <<today, turns, quiz_questions, markdownVars, uploadVars, users, session,
                   chatVars, genVars, workers>>

OwnedQuiz(id, user, course_id, file_id) ==
    [id |-> id, user |-> user, course |-> course_id, uploaded_file |-> <<file_id>>,
     title |-> "Generated Quiz", num_questions |-> 1,
     questions |-> <<[kind |-> "object", body |-> "o2c1", items |-> <<>>]>>,
     generated_from_text |-> TRUE]

InitOwner ==
    /\ courses = <<NewCourse(1, 1, "Algebra"), NewCourse(2, 2, "Biology")>>
    /\ uploaded_files = <<NewUploadedFile(1, 1, 1, "a.pdf", "files/a"),
                          NewUploadedFile(2, 2, 2, "b.pdf", "files/b")>>
    /\ chat_messages = <<NewChatMessage(1, 1, "user", <<"m">>),
                         NewChatMessage(1, 1, "assistant", <<"r">>),
                         NewChatMessage(2, 2, "user", <<"n">>),
                         NewChatMessage(2, 2, "assistant", <<"s">>)>>
    /\ generated_quizzes = <<OwnedQuiz(1, 1, 1, 1), OwnedQuiz(2, 2, 2, 2)>>
    /\ attempt = <<[user |-> 2, quiz |-> 2, answers |-> [k \in {"0"} |-> <<1>>],
                    score |-> 1, percentage |-> 100]>>
    /\ course_progress = <<[NewCourseProgress(2, 1) EXCEPT !.user = 2]>>
    /\ file_progress = <<[NewFileProgress(2) EXCEPT !.user = 2]>>
    /\ next_id = [course |-> 3, quiz |-> 3, file |-> 3]
    /\ requests = 0
    /\ remote_files = {"files/a", "files/b"}
    /\ workers = [w \in Workers |-> NoWorker]
    /\ today = 0
    /\ userstats = <<[NewUserStats(1, 0) EXCEPT !.documents_processed = 1],
                     [NewUserStats(2, 0) EXCEPT !.documents_processed = 1]>>
    /\ retention_metrics = <<>>
    /\ turns = 0
    /\ profiles = <<[user |-> 1, display_name |-> <<"A">>, university |-> <<<<>>>>]>>
    /\ users = <<>>
    /\ session = <<>>
    /\ call = Idle
    /\ quiz_questions = <<>>
    /\ MarkdownIdle
    /\ UploadIdle
    /\ ChatIdle
    /\ GenIdle

NextOwner ==
    /\ requests < MaxOwnerRequests
    /\ \/ ListCourses
       \/ PatchCourse
       \/ DeleteCourse
       \/ GenerateQuiz
       \/ ChatHistory
       \/ FileDetail
       \/ CourseFiles
       \/ \E caller \in Callers : \E body \in ChatBodies : ChatView_post(caller, body)
       \/ \E caller \in Callers : \E course_id \in PathIds :
             UploadNotesView_post(caller, course_id, TRUE)
       \/ \E caller \in Callers : \E body \in DeleteFileBodies :
             DeleteFileView_post(caller, body)
       \/ \E caller \in Callers : \E course_id \in PathIds :
             GetProgressView_get(caller, course_id)
       \/ \E caller \in Callers : \E body \in SubmitQuizBodies :
             SubmitQuizView_post(caller, body)

SpecOwner == InitOwner /\ [][NextOwner]_vars

----------------------------------------------------------------------------
(* Properties of update_user_stats_on_chat (specification Spec) *)

StatsCall == call.op = "update_user_stats_on_chat"

\* The UserStats row of user u as stored now.
StatsOf(u) == userstats[First(Where(userstats, LAMBDA row : row.user = u))]

\* The score of the RetentionMetric rows of (u, d) as stored now.
ScoresOf(u, d) ==
    {retention_metrics[i].score :
        i \in Where(retention_metrics, LAMBDA row : row.user = u /\ row.date = d)}

\* C1 (as stated in the specification): a call made when the stored
\* last-activity date is exactly the day before today increases
\* current_streak by 1; a call made when the stored date is older than
\* yesterday sets current_streak to 1.
C1_StreakFollowsStoredDate ==
    (StatsCall /\ call.had_stats) =>
        /\ (call.stored_date = call.today - 1) =>
              StatsOf(call.user).current_streak = call.streak_before + 1
        /\ (call.stored_date < call.today - 1) =>
              StatsOf(call.user).current_streak = 1

\* C2: a call made when the stored last-activity date is already today leaves
\* current_streak unchanged, however many same-day calls came before it.
C2_SameDayStreakUnchanged ==
    (StatsCall /\ call.had_stats /\ call.stored_date = call.today) =>
        StatsOf(call.user).current_streak = call.streak_before

\* C2 witness: a second or later call on the day of the stored date.
C2_Witness ==
    /\ StatsCall /\ call.had_stats /\ call.stored_date = call.today
    /\ call.score_before # <<>>
    /\ turns >= 2

C3_ScoreInRange ==
    /\ \A i \in 1..Len(retention_metrics) : retention_metrics[i].score \in 0..100
    /\ StatsCall =>
          ScoresOf(call.user, call.today) =
              {IF call.score_before = <<>> THEN 15
               ELSE Min(100, call.score_before[1] + 5)}

C3_ScoreNeverDecreases ==
    \A i \in 1..Len(retention_metrics) :
        /\ i <= Len(retention_metrics')
        /\ retention_metrics'[i].user = retention_metrics[i].user
        /\ retention_metrics'[i].date = retention_metrics[i].date
        /\ retention_metrics'[i].score >= retention_metrics[i].score

\* C3: over any sequence of calls the score of a day's RetentionMetric never
\* decreases and never exceeds 100: the first call of the day creates the row
\* at 15 and every later call adds 5, capped at 100.
C3_RetentionMonotoneCapped ==
    []C3_ScoreInRange /\ [][C3_ScoreNeverDecreases]_vars

\* C3 witness: a call that found the day's score already at the cap.
C3_Witness ==
    /\ StatsCall /\ call.score_before = <<100>>
    /\ ScoresOf(call.user, call.today) = {100}

----------------------------------------------------------------------------
(* Properties of QuizAttempt.calculate_score (specification SpecQuiz) *)

Scored == call.op = "calculate_score"

\* Python round(num / den) for num >= 0, den > 0: to the nearest integer,
\* a tie to the even one.
RoundDiv(num, den) ==
    LET q == num \div den
        r2 == 2 * (num % den)
    IN  IF r2 > den \/ (r2 = den /\ q % 2 = 1) THEN q + 1 ELSE q

\* The questions whose stored answer equals the question's correct index.
Matching ==
    {i \in 0..(Len(quiz_questions) - 1) :
        /\ Str(i) \in DOMAIN attempt[1].answers
        /\ attempt[1].answers[Str(i)] = <<quiz_questions[i + 1].correct>>}

\* C4 (as stated in the specification): for a quiz with at least one
\* question, calculate_score sets percentage to
\* round(100 * correct_count / total_questions).
C4_PercentageIsRounded ==
    (Scored /\ Len(quiz_questions) >= 1) =>
        attempt[1].percentage = RoundDiv(100 * attempt[1].score, Len(quiz_questions))

\* C5: calculate_score sets score to the number of questions i whose answer
\* under key str(i) equals the question's correct index; all answers matching
\* gives percentage 100, no answer matching gives score 0 and percentage 0,
\* and one of two matching gives score 1 and percentage 50.
C5_ScoreCountsMatches ==
    Scored =>
        LET n == Len(quiz_questions)
            a == attempt[1]
        IN  /\ a.score = Cardinality(Matching)
            /\ (n >= 1 /\ Cardinality(Matching) = n) => a.percentage = 100
            /\ (Matching = {}) => (a.score = 0 /\ a.percentage = 0)
            /\ (n = 2 /\ Cardinality(Matching) = 1) =>
                  (a.score = 1 /\ a.percentage = 50)

\* C5 witness: a scored 2-question attempt whose first answer is right and
\* whose second answer is wrong.
C5_Witness ==
    /\ Scored /\ Len(quiz_questions) = 2
    /\ Matching = {0}
    /\ "1" \in DOMAIN attempt[1].answers /\ attempt[1].answers["1"] # <<>>
    /\ attempt[1].score = 1 /\ attempt[1].percentage = 50

----------------------------------------------------------------------------
(* Properties of the progress rows (specification SpecProgress) *)

ProgressCall ==
    /\ call.op \in {"update_progress", "mark_completed"}
    /\ ~call.raised

\* C7 (as stated in the specification): after any sequence of mark_completed
\* and update_progress calls every CourseProgress row has its
\* progress_percentage within [0, 100].
C7_PercentageWithinRange ==
    \A i \in 1..Len(course_progress) :
        course_progress[i].progress_percentage \in 0..100

\* C8: update_progress sets progress_percentage to 0 when total_files is 0
\* and to 100 with status completed when completed_files = total_files > 0;
\* the status is not_started at 0, completed at 100, in_progress otherwise.
C8_ProgressAndStatus ==
    ProgressCall =>
        LET row == course_progress[call.row]
        IN  /\ (row.total_files = 0) => row.progress_percentage = 0
            /\ (row.total_files > 0 /\ row.completed_files = row.total_files) =>
                  (row.progress_percentage = 100 /\ row.status = "completed")
            /\ row.status =
                  CASE row.progress_percentage = 0 -> "not_started"
                    [] row.progress_percentage = 100 -> "completed"
                    [] OTHER -> "in_progress"

\* C8 witness: update_progress has run on a row with every file completed.
C8_Witness ==
    /\ call.op = "update_progress"
    /\ course_progress[call.row].total_files = 2
    /\ course_progress[call.row].completed_files = 2
    /\ course_progress[call.row].status = "completed"

----------------------------------------------------------------------------
(* Properties of the markdown stripper (specification SpecMarkdown) *)

\* C6 (as stated in the specification): stripping is idempotent; for every
\* input built from bold, heading, inline-code and bullet markers a second
\* pass returns what the first pass returned.
C6_StripIdempotent ==
    Len(md_passes) = 2 => md_passes[2] = md_passes[1]

----------------------------------------------------------------------------
(* Properties of registration (specification SpecRegister) *)

\* The last request was a registration with every required field, matching
\* passwords of at least 8 characters and an address no User row held.
ValidRegistration ==
    /\ call.op = "RegisterView.post"
    /\ call.body.kind = "object"
    /\ call.body.first_name # "" /\ call.body.last_name # ""
    /\ call.body.email # "" /\ call.body.password # ""
    /\ call.body.password_confirm = call.body.password
    /\ Len(call.body.password) >= 8
    /\ ~call.before.registered

RowsFor(table, id) == Cardinality({i \in 1..Len(table) : table[i].user = id})

\* C9: a valid registration with an address not yet registered succeeds, adds
\* exactly one User, one StudentProfile and one UserStats row for it, and
\* leaves the session logged in as the new user.
C9_ValidRegistrationSucceeds ==
    ValidRegistration =>
        /\ call.response.status = "success" /\ call.response.code = 200
        /\ Len(users) = call.before.users + 1
        /\ Len(profiles) = call.before.profiles + 1
        /\ Len(userstats) = call.before.stats + 1
        /\ LET new == users[Len(users)]
           IN  /\ new.username = call.body.email
               /\ new.id = call.response.data.user_id
               /\ Cardinality({i \in 1..Len(users) : users[i].id = new.id}) = 1
               /\ RowsFor(profiles, new.id) = 1
               /\ RowsFor(userstats, new.id) = 1
               /\ session = <<new.id>>

\* C9 witness: a second account was registered while the first one was
\* logged in, with a password of exactly 8 characters.
C9_Witness ==
    /\ ValidRegistration
    /\ call.response.status = "success"
    /\ call.body.password = "pass1234"
    /\ Len(users) = 2
    /\ session = <<2>>

----------------------------------------------------------------------------
(* Properties of the file ingestion adapter (specification SpecUpload) *)

\* C10: upload_file_stateless returns a handle only when the last polled
\* state is ACTIVE; for FAILED, for PROCESSING at the wait ceiling, for any
\* other state, and when the upload or a poll raises, it returns None and no
\* exception reaches the caller.
C10_HandleOnlyWhenActive ==
    upload_pc = "done" =>
        /\ upload_result.kind \in {"handle", "None"}
        /\ upload_result.kind = "handle" <=>
              (call.event = "finished" /\ file_state = "ACTIVE")
        /\ call.event \in {"upload_file raised", "get_file raised"} =>
              upload_result.kind = "None"

\* C10 witness: the service still reported PROCESSING when the ceiling of 60
\* seconds was reached, and the adapter returned None.
C10_Witness ==
    /\ upload_pc = "done" /\ call.event = "finished"
    /\ file_state = "PROCESSING" /\ waited = 60
    /\ upload_result.kind = "None"

----------------------------------------------------------------------------
(* Properties of GeminiService.chat (specification SpecChat) *)

ChatDone == chat_pc = "done"

WhitespaceOnly(text) == \A i \in 1..Len(text) : text[i] \in Whitespace

\* C11: chat always returns a string and never raises, whatever the file
\* fetches and the model call did; a model call that failed with message m
\* gives the string "Error: " followed by m.
C11_ChatAlwaysReturnsString ==
    /\ chat_result.kind \in {"pending", "returned"}
    /\ ChatDone =>
          /\ chat_result.kind = "returned"
          /\ chat_response.kind = "raises" =>
                chat_result.value = <<"Error: ", chat_response.message>>

\* A call in which a file fetch raised and the model call raised too.
C11_Witness ==
    /\ ChatDone
    /\ \E i \in 1..Len(chat_states) : chat_states[i] = "raised"
    /\ chat_response = [kind |-> "raises", message |-> "timeout"]
    /\ chat_result = Returned(<<"Error: ", "timeout">>)

\* C12: when the model output is missing (None), empty or whitespace-only
\* chat returns the fixed fallback string, and for no model output at all
\* does chat return the empty string.
C12_FallbackNeverEmpty ==
    ChatDone =>
        /\ (\/ chat_response.kind = "text_none"
            \/ chat_response.kind = "text" /\ WhitespaceOnly(chat_response.text))
              => chat_result = Returned(FALLBACK)
        /\ chat_result # Returned(<<>>)

\* The names among the first Len(states) of names whose fetch gave ACTIVE,
\* in list order.
RECURSIVE ActiveNames(_, _)
ActiveNames(names, states) ==
    IF states = <<>> THEN <<>>
    ELSE LET n == Len(states)
         IN  ActiveNames(names, SubSeq(states, 1, n - 1))
                 \o (IF states[n] = "ACTIVE" THEN <<names[n]>> ELSE <<>>)

\* C13: the handles attached are exactly those fetched as ACTIVE, in order;
\* a handle in another state or whose fetch raised is skipped, every later
\* handle is still looked at, and the model call gets exactly the attached
\* ones.
C13_AttachesExactlyActive ==
    /\ content_parts = ActiveNames(chat_names, chat_states)
    /\ chat_pc \in {"calling", "done"} => Len(chat_states) = Len(chat_names)
    /\ ChatDone => call.files = ActiveNames(chat_names, chat_states)

\* The first fetch raised, the second handle was ACTIVE and was attached.
C13_Witness ==
    /\ ChatDone
    /\ chat_states = <<"raised", "ACTIVE">>
    /\ call.files = <<chat_names[2]>>
    /\ chat_result.kind = "returned"

----------------------------------------------------------------------------
(* Properties of GeminiService.generate_quiz (specification SpecGen) *)

GenDone == gen_pc = "done"

\* C14: generate_quiz never raises and returns one of three results: a
\* non-empty list parsed from the model output, None, or the quota sentinel.
\* A model output without any "[", an array that does not parse and a remote
\* failure whose message names no quota give None.
C14_QuizThreeResults ==
    /\ gen_result.kind \in {"pending", "list", "None", "dict"}
    /\ GenDone =>
          /\ \/ /\ gen_result.kind = "list"
                /\ Len(gen_result.questions) > 0
                /\ gen_response.kind = "text"
             \/ gen_result = QuizNone
             \/ gen_result = QUOTA_EXCEEDED
          /\ (gen_response.kind = "text"
                /\ \A i \in 1..Len(gen_response.text) : gen_response.text[i] # "[")
                => gen_result = QuizNone
          /\ (gen_response.kind = "text"
                /\ gen_response.text \in {<<"[", "{", "]">>, <<"[", "{", "x", "}", "]">>,
                                          <<"[", "]">>, <<"[", "{", "}", "x", "]">>})
                => gen_result = QuizNone
          /\ (gen_response.kind = "raises"
                /\ gen_response.message \in {<<>>, <<"t", "i", "m", "e", "o", "u", "t">>})
                => gen_result = QuizNone

\* A quiz of one question read from the model output after the file that
\* was named could not be attached.
C14_Witness ==
    /\ GenDone
    /\ Len(gen_names) = 1 /\ gen_parts = <<>>
    /\ gen_response = [kind |-> "text", text |-> <<"[", "{", "o2c1", "}", "]">>]
    /\ gen_result.kind = "list"
    /\ Len(gen_result.questions) = 1
    /\ QuestionOf(gen_result.questions[1].body).correct = <<1>>

----------------------------------------------------------------------------
(* Properties of GenerateQuizView (specification SpecQuizView) and of the
   JSON handlers together (specification SpecApi) *)

\* The last request reached the call of generate_quiz.
QuizGenerated ==
    /\ call.op = "GenerateQuizView.post"
    /\ "response" \in DOMAIN call.args

\* str(e) of the failed model call holds one of the quota markers, in any
\* case of letters.
QuotaMarked(response) ==
    /\ response.kind = "raises"
    /\ \E keyword \in QUOTA_KEYWORDS : Contains(Lower(response.message), keyword)

\* C15: a model call that fails with a message holding a quota marker makes
\* generate_quiz return the quota sentinel, which is neither None nor a list,
\* and GenerateQuizView answer 429; every other generation without questions
\* is answered 500, and 429 is answered for nothing but a quota-marked
\* failure.
C15_QuotaGives429 ==
    QuizGenerated =>
        LET response == call.args.response
            questions == QuizReply(response)
        IN  /\ QuotaMarked(response) =>
                  /\ questions = QUOTA_EXCEEDED
                  /\ questions # QuizNone
                  /\ questions.kind # "list"
                  /\ call.response = error(QUOTA_MESSAGE, 429)
            /\ (~QuotaMarked(response) /\ questions.kind # "list") =>
                  /\ call.response.status = "error"
                  /\ call.response.code = 500
            /\ call.response.code = 429 => QuotaMarked(response)

\* The remote service refused the call with RESOURCE_EXHAUSTED in capitals
\* and the logged-in owner of the course was answered 429.
C15_Witness ==
    /\ QuizGenerated
    /\ call.caller = <<1>>
    /\ call.args.response =
          [kind |-> "raises",
           message |-> <<"R", "E", "S", "O", "U", "R", "C", "E", "_",
                         "E", "X", "H", "A", "U", "S", "T", "E", "D">>]
    /\ call.response.code = 429
    /\ generated_quizzes = <<>>

\* C16: every question of every stored GeneratedQuiz is an object whose
\* correct index lies within its own options: 0 <= correct < len(options).
C16_CorrectWithinOptions ==
    \A k \in 1..Len(generated_quizzes) :
        \A n \in 1..Len(generated_quizzes[k].questions) :
            LET question == generated_quizzes[k].questions[n]
                fields == QuestionOf(question.body)
            IN  /\ question.kind = "object"
                /\ fields.options # <<>>
                /\ fields.correct # <<>>
                /\ 0 <= fields.correct[1]
                /\ fields.correct[1] < fields.options[1]

\* C17: every response of a handler is an envelope with status "success" or
\* "error", and a request without a session is answered with an error
\* envelope of HTTP status 401, whichever handler it went to.
C17_EnvelopeAnd401 ==
    call # Idle =>
        /\ call.response.status \in {"success", "error"}
        /\ call.caller = <<>> =>
              /\ call.response.status = "error"
              /\ call.response.code = 401

\* The body of the last request, <<>> for a request without one.
BodyOf(request) ==
    IF request.op \in {"CourseListView.post", "UpdateProfileView.post"}
    THEN <<request.args>>
    ELSE IF request.op \in {"CourseDetailView.patch", "GenerateQuizView.post"}
    THEN <<request.args.body>>
    ELSE <<>>

\* C18: a logged-in request whose body is not valid JSON, or that lacks a
\* required field (the name of the course to create, the course_id of the
\* quiz to generate), is answered with an error envelope of HTTP status 400.
\* A patch is held to this when the course of its URL exists and is the
\* caller's.
C18_BadInputGives400 ==
    (call # Idle /\ call.caller # <<>> /\ BodyOf(call) # <<>>) =>
        LET body == BodyOf(call)[1]
            required == IF call.op = "CourseListView.post" THEN {"name", "branch"}
                        ELSE IF call.op = "GenerateQuizView.post" THEN {"course_id"}
                        ELSE {}
            bad == \/ body.kind = "malformed"
                   \/ body.kind = "object" /\ \E key \in required : body[key] = <<>>
            known == call.op = "CourseDetailView.patch" =>
                        CourseGet(call.args.course_id, call.caller[1]) # {}
        IN  (bad /\ known) =>
                /\ call.response.status = "error"
                /\ call.response.code = 400

\* A request of a logged-in caller names a course or a file that the tables,
\* as they are when it arrives, do not hold for that caller.
NamesMissingRow(request) ==
    /\ request.caller # <<>>
    /\ \/ /\ request.op \in {"CourseDetailView.patch", "CourseDetailView.delete",
                             "ChatHistoryView.get", "CourseFilesView.get"}
          /\ CourseGet(request.args.course_id, request.caller[1]) = {}
       \/ /\ request.op = "FileDetailView.get"
          /\ FileGet(request.args.file_id, request.caller[1]) = {}
       \/ /\ request.op = "GenerateQuizView.post"
          /\ request.args.body.kind = "object"
          /\ request.args.body.course_id # <<>>
          /\ \/ CourseGet(request.args.body.course_id[1], request.caller[1]) = {}
             \/ /\ request.args.body.file_id # <<>>
                /\ FileGet(request.args.body.file_id[1], request.caller[1]) = {}

C19_AnsweredNotFound ==
    NamesMissingRow(call') =>
        /\ call'.response.status = "error"
        /\ call'.response.code = 404

\* C19: a request that names a course or a file which does not exist or is
\* not the caller's is answered with HTTP 404, a quiz generation whose
\* file_id names no file of the caller included.
C19_MissingGives404 == [][C19_AnsweredNotFound]_vars

\* C20: after any sequence of course create and course patch requests every
\* stored Course has one of the three statuses of STATUS_CHOICES.
C20_StatusIsAChoice ==
    \A k \in 1..Len(courses) : courses[k].status \in STATUS_CHOICES

----------------------------------------------------------------------------
(* Properties of update_user_stats_on_chat under interleaving (specification
   SpecRace) *)

MetricRows(u, day) ==
    Where(retention_metrics, LAMBDA row : row.user = u /\ row.date = day)

\* C21: however the statements of two calls of update_user_stats_on_chat
\* interleave, there is at most one RetentionMetric row per user and date,
\* its score is within 0..100, and each call ends by returning: the
\* IntegrityError of a second create is caught inside the call.
C21_OneMetricPerUserAndDate ==
    /\ \A u \in Users : \A day \in Days : Cardinality(MetricRows(u, day)) <= 1
    /\ \A i \in 1..Len(retention_metrics) :
          /\ retention_metrics[i].score >= 0
          /\ retention_metrics[i].score <= RETENTION_CAP
    /\ \A w \in Workers :
          /\ workers[w].outcome \in {"none", "returned", "caught"}
          /\ workers[w].pc = "done" => workers[w].outcome \in {"returned", "caught"}

\* Both workers served the same user on the same day, both found no row of
\* the day, one created it and the other's create was refused: one row, at
\* the base score, one increment lost.
C21_Witness ==
    /\ workers["w1"].pc = "done" /\ workers["w2"].pc = "done"
    /\ workers["w1"].user = workers["w2"].user
    /\ workers["w1"].today = workers["w2"].today
    /\ workers["w1"].today_metric = <<>> /\ workers["w2"].today_metric = <<>>
    /\ {workers["w1"].outcome, workers["w2"].outcome} = {"returned", "caught"}
    /\ LET rows == MetricRows(workers["w1"].user, workers["w1"].today)
       IN  /\ Cardinality(rows) = 1
           /\ retention_metrics[First(rows)].score = RETENTION_BASE

----------------------------------------------------------------------------
(* Termination of the poll loop of upload_file_stateless (specification
   SpecUploadLive) *)

\* waited counts two seconds for every re-fetch that returned.
C22_AtMostThirtyPolls ==
    /\ waited % POLL_SECONDS = 0
    /\ waited <= max_wait
    /\ waited \div POLL_SECONDS <= 30

\* C22: the poll loop of upload_file_stateless always ends: the state is
\* re-fetched at most 30 times (two seconds each, sixty at most) and then
\* the function returns, also when every check reports PROCESSING.
C22_PollLoopEnds == []C22_AtMostThirtyPolls /\ <>(upload_pc = "done")

\* Thirty re-fetches all reported PROCESSING; the function returned None.
C22_Witness ==
    /\ upload_pc = "done"
    /\ file_state = "PROCESSING"
    /\ waited = max_wait
    /\ waited \div POLL_SECONDS = 30
    /\ upload_result = [kind |-> "None"]

----------------------------------------------------------------------------
(* Properties of generate_quiz on wrapped arrays (specification SpecExtract) *)

\* C23: for a model output made of prose, one valid non-empty JSON array of
\* question objects (fenced or not) and prose again, generate_quiz returns
\* exactly that array: the list that the array alone parses to.
C23_ReturnsTheWrappedArray ==
    GenDone =>
        /\ gen_result.kind = "list"
        /\ gen_result = QuizReply([kind |-> "text", text |-> gen_response.array])

----------------------------------------------------------------------------
(* Properties of the context GenerateQuizView passes on (specification
   SpecQuizView) *)

\* The newest n rows of a sequence in creation order, oldest first.
Newest(rows, n) ==
    IF Len(rows) > n THEN SubSeq(rows, Len(rows) - n + 1, Len(rows)) ELSE rows

\* C24: when GenerateQuizView generates without files, the context text is
\* the concatenation, oldest to newest, of the newest (at most 5) messages of
\* the course whose role is user; no assistant message is part of it.
C24_ContextOnlyUserMessages ==
    (QuizGenerated /\ call.args.file_resources = <<>>) =>
        LET asked == SelectSeq(chat_messages,
                        LAMBDA row : /\ row.user = call.caller[1]
                                     /\ row.course = call.args.body.course_id[1]
                                     /\ row.role = "user")
            recent == Newest(asked, RECENT_MESSAGES)
        IN  call.args.context_text = JoinLines([k \in 1..Len(recent) |-> recent[k].message])

----------------------------------------------------------------------------
(* Properties of LoginView after registrations (specification SpecLogin) *)

\* A registration with this email and password has succeeded: create_user
\* stored the address as username, and User rows are never removed.
Registered(email, password) ==
    \E i \in 1..Len(users) : users[i].username = email /\ users[i].password = password

\* C27: after a registration with email e and password p has succeeded, a
\* login with e and p is answered 200, whatever was registered in between.
C27_RegisteredCanLogIn ==
    (/\ call.op = "LoginView.post"
     /\ call.body.kind = "object"
     /\ Registered(call.body.email, call.body.password)) =>
        /\ call.response.status = "success"
        /\ call.response.code = 200

----------------------------------------------------------------------------
(* Properties of the handlers of SpecMore *)

\* C25: an UpdateProgressView request that names a file and a course of the
\* caller succeeds and stores the file's read percentage and completion in
\* the caller's FileProgress row of that file, where a following
\* GetProgressView of the course reads them.
C25_ProgressUpdateStored ==
    (/\ call.op = "UpdateProgressView.post"
     /\ call.caller # <<>>
     /\ call.args.kind = "object"
     /\ call.args.fileid # <<>> /\ call.args.courseid # <<>>
     /\ FileGet(call.args.fileid[1], call.caller[1]) # {}
     /\ CourseGet(call.args.courseid[1], call.caller[1]) # {}) =>
        /\ call.response.status = "success"
        /\ \E k \in 1..Len(file_progress) :
              /\ file_progress[k].user = call.caller[1]
              /\ file_progress[k].uploaded_file = call.args.fileid[1]
              /\ file_progress[k].is_completed = (call.args.iscompleted = <<TRUE>>)
              /\ file_progress[k].read_percentage =
                    IF call.args.iscompleted = <<TRUE>> THEN 100
                    ELSE IntPercent(call.args.pagesread[1], call.args.totalpages[1])

\* The messages of one user in one course, in creation order.
History(user, course_id) ==
    SelectSeq(chat_messages, LAMBDA row : row.user = user /\ row.course = course_id)

C28_HistoryIsPairs ==
    \A user \in ApiUsers : \A course_id \in PathIds :
        LET history == History(user, course_id)
        IN  /\ Len(history) % 2 = 0
            /\ \A k \in 1..Len(history) :
                  history[k].role = IF k % 2 = 1 THEN "user" ELSE "assistant"

C28_ErrorStoresNothing ==
    (call'.op = "ChatView.post" /\ call'.response.status = "error") =>
        chat_messages' = chat_messages

\* C28: a ChatView request answered with an error status has stored no
\* ChatMessage, so the history of every course is a sequence of pairs: a
\* user message and, right after it, the assistant's reply.
C28_FailedChatStoresNothing == []C28_HistoryIsPairs /\ [][C28_ErrorStoresNothing]_vars

DocumentsProcessed(table, user) ==
    LET statIdx == Where(table, LAMBDA row : row.user = user)
    IN  IF statIdx = {} THEN 0 ELSE table[First(statIdx)].documents_processed

C29_CountedOnlyWhenStored ==
    (call'.op = "UploadNotesView.post" /\ call'.caller # <<>>) =>
        LET user == call'.caller[1]
            stored == Len(uploaded_files') = Len(uploaded_files) + 1
        IN  /\ call'.response.code = 404 =>
                /\ userstats' = userstats
                /\ remote_files' = remote_files
            /\ DocumentsProcessed(userstats', user) =
                  DocumentsProcessed(userstats, user) + (IF stored THEN 1 ELSE 0)

\* C29: UploadNotesView counts a document and keeps a file at the service
\* only for a request that stores an UploadedFile row; a request answered 404
\* (course absent or not the caller's) changes neither documents_processed
\* nor the files at the service.
C29_UploadCountsStoredRows == [][C29_CountedOnlyWhenStored]_vars

C30_RowRemovedOnlyBySuccess ==
    (call'.op = "DeleteFileView.post" /\ uploaded_files' # uploaded_files) =>
        call'.response.status = "success"

\* C30: a DeleteFileView request answered with an error because the delete
\* at the service failed leaves the UploadedFile row in place; only a request
\* answered success removes the row.
C30_FailedDeleteKeepsRow == [][C30_RowRemovedOnlyBySuccess]_vars

----------------------------------------------------------------------------
(* Properties of the handlers towards the rows of another user
   (specification SpecOwner) *)

Own(table, owner) == SelectSeq(table, LAMBDA row : row.user = owner)

\* Everything a user owns: the rows of the seven tables and the files the
\* service holds for the user's UploadedFile rows.
Owned(owner) ==
    [courses |-> Own(courses, owner),
     uploaded_files |-> Own(uploaded_files, owner),
     chat_messages |-> Own(chat_messages, owner),
     generated_quizzes |-> Own(generated_quizzes, owner),
     attempts |-> Own(attempt, owner),
     course_progress |-> Own(course_progress, owner),
     file_progress |-> Own(file_progress, owner),
     remote |-> {uploaded_files[k].gemini_resource_name :
                    k \in Where(uploaded_files, LAMBDA row : row.user = owner)}
                \cap remote_files]

\* The request names, in its URL or body, a course, a file or a quiz that
\* the tables hold for owner.
NamesRowOf(request, owner) ==
    \/ /\ request.op \in {"CourseDetailView.patch", "CourseDetailView.delete",
                          "ChatHistoryView.get", "CourseFilesView.get",
                          "UploadNotesView.post", "GetProgressView.get"}
       /\ CourseGet(request.args.course_id, owner) # {}
    \/ /\ request.op = "FileDetailView.get"
       /\ FileGet(request.args.file_id, owner) # {}
    \/ /\ request.op \in {"GenerateQuizView.post", "ChatView.post"}
       /\ request.args.body.kind = "object"
       /\ request.args.body.course_id # <<>>
       /\ CourseGet(request.args.body.course_id[1], owner) # {}
    \/ /\ request.op = "GenerateQuizView.post"
       /\ request.args.body.kind = "object"
       /\ request.args.body.file_id # <<>>
       /\ FileGet(request.args.body.file_id[1], owner) # {}
    \/ /\ request.op = "DeleteFileView.post"
       /\ request.args.body.kind = "object"
       /\ request.args.body.file_id # <<>>
       /\ FileGet(request.args.body.file_id[1], owner) # {}
    \/ /\ request.op = "SubmitQuizView.post"
       /\ request.args.body.kind = "object"
       /\ request.args.body.quiz_id # <<>>
       /\ QuizGet(request.args.body.quiz_id[1], owner) # {}

\* The table rows a response carries.
RowsReturned(request) ==
    IF request.response.status # "success" THEN <<>>
    ELSE IF request.op \in {"CourseListView.get", "CourseFilesView.get"}
    THEN request.response.data
    ELSE IF request.op = "ChatHistoryView.get" THEN request.response.data.messages
    ELSE IF request.op = "GetProgressView.get"
    THEN <<request.response.data.course_progress>> \o request.response.data.file_progress
    ELSE <<>>

C26_StepKeepsOthersRows ==
    /\ \A owner \in ApiUsers :
          call'.caller # <<owner>> =>
              /\ Owned(owner)' = Owned(owner)
              /\ NamesRowOf(call', owner) => call'.response.status # "success"
    /\ \A k \in 1..Len(RowsReturned(call')) :
          <<RowsReturned(call')[k].user>> = call'.caller

====
